---- MODULE Spec2Model ----
(***************************************************************************)
(* Verification model of the Vanguard_Viz data proxy (src/server.js):      *)
(*   - the Gateway callBungieAPI (response cache + request pacing),        *)
(*   - the manifest resolver fetchManifestDefinitions,                     *)
(*   - the definition transformers and the field-defaulting pass,          *)
(*   - the filter engine filterInventoryItems.                             *)
(*   - the date-range routes, the sample generators generateSampleData     *)
(*     and generateVendorInventoryData, and DateUtils                      *)
(*     (src/public/tests/date-utils.js).                                   *)
(* Time is in milliseconds.  The process is single threaded: every action  *)
(* is one run-to-completion piece of a handler between two awaits.         *)
(***************************************************************************)
EXTENDS Integers, Sequences, FiniteSets, TLC

VARIABLES job, xf, flt, now, lastRequestTime, apiCache, calls, tasks, requests,
          lastOk, invocations

gwVars == <<now, lastRequestTime, apiCache, calls, tasks, requests, lastOk,
            invocations>>

vars == <<job, xf, flt, now, lastRequestTime, apiCache, calls, tasks, requests,
          lastOk, invocations>>

(***************************************************************************)
(* Bounds of the model.                                                    *)
(***************************************************************************)
NumProcs == 2
MaxInvocations == 3
InitNow == 1000
Horizon == 100
MaxExpiries == 1
TickUnit == 50
MaxLateness == 50
MaxEntries == 2
MaxItems == 3

(***************************************************************************)
(* Program constants.                                                      *)
(***************************************************************************)
MIN_REQUEST_INTERVAL == 100
stdTTL == 3600
REQUEST_TIMEOUT == 10000

Procs == 1..NumProcs

(***************************************************************************)
(* JavaScript values.  Every value is a record of the same shape so that   *)
(* values of different JavaScript types can be compared.                   *)
(***************************************************************************)
Undefined == [t |-> "undefined", n |-> 0, s |-> "", b |-> FALSE]
Null == [t |-> "null", n |-> 0, s |-> "", b |-> FALSE]
Num(k) == [t |-> "number", n |-> k, s |-> "", b |-> FALSE]
Str(x) == [t |-> "string", n |-> 0, s |-> x, b |-> FALSE]
Bool(x) == [t |-> "boolean", n |-> 0, s |-> "", b |-> x]
NaN == [t |-> "NaN", n |-> 0, s |-> "", b |-> FALSE]
Obj(x) == [t |-> "object", n |-> 0, s |-> x, b |-> FALSE]

\* ToBoolean: undefined, null, 0, NaN, "" and false are falsy.
Truthy(v) ==
    CASE v.t = "undefined" -> FALSE
      [] v.t = "null" -> FALSE
      [] v.t = "NaN" -> FALSE
      [] v.t = "number" -> v.n # 0
      [] v.t = "string" -> v.s # ""
      [] v.t = "boolean" -> v.b
      [] OTHER -> TRUE

(***************************************************************************)
(* Upstream response bodies (response.data).  kind is the JavaScript type  *)
(* of the body (a string body is the empty body ""), ErrorCode the value   *)
(* of its ErrorCode field, Response the shape of                           *)
(* Response.jsonWorldComponentContentPaths, ver the payload.               *)
(***************************************************************************)
Body(kind, code, resp, ver) ==
    [kind |-> kind, ErrorCode |-> code, Response |-> resp, ver |-> ver]

EmptyBody == Body("string", Undefined, "absent", 0)
ManifestBody(shape) == Body("object", Num(1), shape, 1)
ErrorBody == Body("object", Num(5), "absent", 1)
NoneCodeBody == Body("object", Num(0), "absent", 1)
BlobBody(v) == Body("object", Undefined, "absent", v)

StatsBody == Body("object", Num(1), "absent", 1)

Bodies ==
    {EmptyBody, ErrorBody, NoneCodeBody, StatsBody, BlobBody(1),
     ManifestBody("ok"), ManifestBody("noType")}

NoBody == Body("none", Undefined, "absent", 0)

\* The body as a JavaScript value, for truthiness tests (NoBody is undefined).
BodyValue(b) ==
    CASE b.kind = "none" -> Undefined
      [] b.kind = "string" -> Str("")
      [] OTHER -> Obj("body")

(***************************************************************************)
(* Number.prototype.toString / String(n) for a non-negative integer.       *)
(***************************************************************************)
Digit(d) ==
    CASE d = 0 -> "0" [] d = 1 -> "1" [] d = 2 -> "2" [] d = 3 -> "3"
      [] d = 4 -> "4" [] d = 5 -> "5" [] d = 6 -> "6" [] d = 7 -> "7"
      [] d = 8 -> "8" [] OTHER -> "9"

RECURSIVE NumToString(_)
NumToString(k) ==
    IF k < 10 THEN Digit(k) ELSE NumToString(k \div 10) \o Digit(k % 10)

(***************************************************************************)
(* Cache key, server.js line 40: `${endpoint}:${JSON.stringify(params)}`.  *)
(* params is the sequence of the object's <<name, value>> properties in    *)
(* insertion order, which is the order JSON.stringify writes them in.      *)
(***************************************************************************)
JSONValue(v) ==
    IF v.t = "number" THEN NumToString(v.n) ELSE "\"" \o v.s \o "\""

RECURSIVE JSONMembers(_)
JSONMembers(ps) ==
    IF Len(ps) = 0 THEN ""
    ELSE "\"" \o ps[1][1] \o "\":" \o JSONValue(ps[1][2])
         \o (IF Len(ps) = 1 THEN "" ELSE "," \o JSONMembers(Tail(ps)))

JSONStringify(ps) == "{" \o JSONMembers(ps) \o "}"

CacheKey(endpoint, params) == endpoint \o ":" \o JSONStringify(params)

(***************************************************************************)
(* The endpoints the server calls the Gateway with.                        *)
(***************************************************************************)
MANIFEST_ENDPOINT == "/Destiny2/Manifest/"
STATS_ENDPOINT == "/Destiny2/3/Account/1/Character/0/Stats/"
BUNGIE_HOST == "https://www.bungie.net"
NoParams == << >>
StatsParams == << <<"groups", Str("Weapons")>>, <<"periodType", Num(1)>> >>

\* The manifest's content path of a definition type (upstream data).
DefinitionPath(T) == "/common/destiny2_content/json/en/" \o T \o ".json"
FullUrl(T) == BUNGIE_HOST \o DefinitionPath(T)

GatewayDefinitionTypes == {"DestinyClassDefinition"}

\* <<endpoint, params, isFullUrl>> of the direct Gateway calls of the routes
\* (the calls with isFullUrl true are those of fetchManifestDefinitions).
DirectCalls == {<<STATS_ENDPOINT, StatsParams, FALSE>>}

\* What the upstream may answer a GET of `endpoint` with.
UpstreamBodies(endpoint) ==
    CASE endpoint = MANIFEST_ENDPOINT ->
            {ManifestBody("ok"), ManifestBody("noLocale"), ManifestBody("noType"),
             ErrorBody, EmptyBody}
      [] endpoint = STATS_ENDPOINT -> {StatsBody, NoneCodeBody, ErrorBody}
      [] OTHER -> {BlobBody(1), EmptyBody, ErrorBody}

(***************************************************************************)
(* apiCache: a NodeCache with stdTTL seconds.  An entry is [v, t], t the   *)
(* expiry time; get() treats an entry with t < Date.now() as absent and    *)
(* deletes it.                                                             *)
(***************************************************************************)
EmptyCache == [k \in {} |-> NoBody]

\* Mutant: get() never checks the expiry time.
CacheExpired_Never(c, key, t) == FALSE

CacheExpired(c, key, t) == key \in DOMAIN c /\ c[key].t < t

CacheGet(c, key, t) ==
    IF key \in DOMAIN c /\ ~CacheExpired(c, key, t) THEN c[key].v ELSE NoBody

CacheAfterGet(c, key, t) ==
    IF CacheExpired(c, key, t) THEN [k \in DOMAIN c \ {key} |-> c[k]] ELSE c

CacheSet(c, key, body, t) ==
    [k \in DOMAIN c \cup {key} |->
        IF k = key THEN [v |-> body, t |-> t + stdTTL * 1000] ELSE c[k]]

\* line 43: if (cachedResult)
IsCacheHit(cachedResult) == Truthy(BodyValue(cachedResult))

\* Mutant: a call that has to wait queues behind the pending one for a
\* further interval.
WaitTime_Queued(t, last) ==
    IF t - last < MIN_REQUEST_INTERVAL
    THEN 2 * MIN_REQUEST_INTERVAL - (t - last) ELSE 0

\* Mutant: waits for the time already elapsed instead of the remainder.
WaitTime_Elapsed(t, last) ==
    IF t - last < MIN_REQUEST_INTERVAL THEN t - last ELSE 0

\* lines 49-54: the pacing delay of a call that reads the clock at time t.
WaitTime(t, last) ==
    IF t - last < MIN_REQUEST_INTERVAL
    THEN MIN_REQUEST_INTERVAL - (t - last) ELSE 0

\* Mutant: the response is never inspected.
IsBungieError_Never(isFullUrl, body) == FALSE

\* line 81: the application-level error convention.
IsBungieError(isFullUrl, body) ==
    ~isFullUrl /\ Truthy(body.ErrorCode) /\ body.ErrorCode # Num(1)

(***************************************************************************)
(* State of the Gateway.                                                   *)
(*   calls[p]    the callBungieAPI invocation process p is in              *)
(*   tasks[p]    the logical request p serves: a direct Gateway call of a  *)
(*               route, or fetchManifestDefinitions                        *)
(*   requests    the network requests issued so far: start time and caller *)
(*   lastOk[k]   the body and time of the last successful network return   *)
(*               of a call with cache key k since the last cache flush     *)
(***************************************************************************)
\* id, seen, req and stale are history fields: the invocation's ordinal, the
\* number of network requests issued before it entered, the index of its own
\* network request, and whether it found an expired entry under its key.
IdleCall ==
    [pc |-> "idle", endpoint |-> "", key |-> "", isFullUrl |-> FALSE,
     wakeAt |-> 0, result |-> NoBody, err |-> "", nreq |-> 0,
     id |-> 0, seen |-> 0, req |-> 0, stale |-> FALSE]

NoTask == [kind |-> "none", step |-> "-", defType |-> "", err |-> "",
           ncalls |-> 0, nreq |-> 0, out |-> 0]

GatewayInit ==
    /\ now = InitNow
    /\ lastRequestTime = 0
    /\ apiCache = EmptyCache
    /\ calls = [p \in Procs |-> IdleCall]
    /\ tasks = [p \in Procs |-> NoTask]
    /\ requests = << >>
    /\ lastOk = [k \in {} |-> [body |-> NoBody, at |-> 0]]
    /\ invocations = 0

\* lines 58-78: stamp the pacing clock and issue the HTTP GET.
IssueRequest(p, c) ==
    /\ lastRequestTime' = now
    /\ requests' = Append(requests, now)
    /\ calls' = [calls EXCEPT ![p] =
                    [c EXCEPT !.pc = "inflight", !.nreq = c.nreq + 1,
                              !.req = Len(requests) + 1]]

\* lines 38-58: callBungieAPI up to its first suspension point.
Enter(p, endpoint, params, isFullUrl) ==
    LET key == CacheKey(endpoint, params)
        cachedResult == CacheGet(apiCache, key, now)
        waitTime == WaitTime(now, lastRequestTime)
        c == [IdleCall EXCEPT !.endpoint = endpoint, !.key = key,
                              !.isFullUrl = isFullUrl,
                              !.id = invocations + 1,
                              !.seen = Len(requests),
                              !.stale = (key \in DOMAIN apiCache
                                         /\ apiCache[key].t < now)]
    IN  /\ invocations' = invocations + 1
        /\ apiCache' = CacheAfterGet(apiCache, key, now)
        /\ IF IsCacheHit(cachedResult)
           THEN /\ calls' = [calls EXCEPT ![p] =
                       [c EXCEPT !.pc = "returned", !.result = cachedResult]]
                /\ UNCHANGED <<lastRequestTime, requests>>
           ELSE IF waitTime > 0
           THEN /\ calls' = [calls EXCEPT ![p] =
                       [c EXCEPT !.pc = "waiting", !.wakeAt = now + waitTime]]
                /\ UNCHANGED <<lastRequestTime, requests>>
           ELSE IssueRequest(p, c)

\* The logical request of p has its result or its error.
Settled(p) ==
    IF tasks[p].kind = "direct" THEN calls[p].pc \in {"returned", "failed"}
    ELSE tasks[p].kind = "fmd" /\ tasks[p].step \in {"done", "failed"}

\* p serves no request: it has none yet, or its handler has responded.
Unused(p) == tasks[p].kind = "none" \/ Settled(p)

\* The next request is served in the first slot that serves none: which
\* slot a handler runs in makes no difference to the program.
Free(p) == Unused(p) /\ \A q \in Procs : q < p => ~Unused(q)

\* line 836 and the other direct calls of the routes.
CallBungieAPI(p, endpoint, params, isFullUrl) ==
    /\ Free(p)
    /\ invocations < MaxInvocations
    /\ Enter(p, endpoint, params, isFullUrl)
    /\ tasks' = [tasks EXCEPT ![p] =
                    [NoTask EXCEPT !.kind = "direct", !.ncalls = 1,
                                   !.nreq = calls'[p].nreq]]
    /\ UNCHANGED <<now, lastOk>>
    /\ UNCHANGED <<job, xf, flt>>

\* line 55: the pacing timer fires (at or after its deadline), lines 58-78.
Wake(p) ==
    /\ calls[p].pc = "waiting"
    /\ now >= calls[p].wakeAt
    /\ IssueRequest(p, calls[p])
    /\ tasks' = [tasks EXCEPT ![p].nreq = @ + 1]
    /\ UNCHANGED <<now, apiCache, lastOk, invocations>>
    /\ UNCHANGED <<job, xf, flt>>

\* Mutant: the catch block schedules another attempt instead of rethrowing.
OnError_Retry(c, e) == [c EXCEPT !.pc = "waiting", !.err = e]

\* lines 90-97: the catch block logs and rethrows.
OnError(c, e) == [c EXCEPT !.pc = "failed", !.err = e]

\* lines 78-89: the response arrives with body `body`.
Respond(p, body) ==
    /\ calls[p].pc = "inflight"
    /\ IF IsBungieError(calls[p].isFullUrl, body)
       THEN /\ calls' = [calls EXCEPT ![p] = OnError(@, "Bungie API Error")]
            /\ UNCHANGED <<apiCache, lastOk>>
       ELSE /\ apiCache' = CacheSet(apiCache, calls[p].key, body, now)
            /\ calls' = [calls EXCEPT ![p].pc = "returned", ![p].result = body]
            /\ lastOk' = [k \in DOMAIN lastOk \cup {calls[p].key} |->
                            IF k = calls[p].key
                            THEN [body |-> body, at |-> now] ELSE lastOk[k]]
    /\ UNCHANGED <<now, lastRequestTime, tasks, requests, invocations>>
    /\ UNCHANGED <<job, xf, flt>>

\* line 78 throws: network error, timeout or a non-2xx status.
RequestFails(p) ==
    /\ calls[p].pc = "inflight"
    /\ calls' = [calls EXCEPT ![p] = OnError(@, "Network Error")]
    /\ UNCHANGED <<now, lastRequestTime, apiCache, tasks, requests, lastOk,
                   invocations>>
    /\ UNCHANGED <<job, xf, flt>>

\* lines 1520-1527: the clear-cache route.
ClearCache ==
    /\ apiCache # EmptyCache
    /\ apiCache' = EmptyCache
    /\ lastOk' = [k \in {} |-> [body |-> NoBody, at |-> 0]]
    /\ UNCHANGED <<now, lastRequestTime, calls, tasks, requests, invocations>>
    /\ UNCHANGED <<job, xf, flt>>

\* line 55: a pacing timer fires at its deadline or up to MaxLateness later.
TimersAllow(t) ==
    \A p \in Procs :
        calls[p].pc = "waiting" => t <= calls[p].wakeAt + MaxLateness

\* lines 66-78: a request is answered or fails within REQUEST_TIMEOUT.
TimeoutsAllow(t) ==
    \A p \in Procs :
        calls[p].pc = "inflight" => t - requests[calls[p].req] <= REQUEST_TIMEOUT

\* Wall-clock time passes.  The model follows the clock for Horizon ms after
\* the start and after each of MaxExpiries whole cache lifetimes.
Tick(d) ==
    /\ now + d <= InitNow + MaxExpiries * stdTTL * 1000 + Horizon
    /\ (now + d - InitNow) % (stdTTL * 1000) <= Horizon
    /\ TimersAllow(now + d)
    /\ TimeoutsAllow(now + d)
    /\ now' = now + d
    /\ UNCHANGED <<lastRequestTime, apiCache, calls, tasks, requests, lastOk,
                   invocations>>
    /\ UNCHANGED <<job, xf, flt>>

TickSteps == {TickUnit, stdTTL * 1000}

(***************************************************************************)
(* fetchManifestDefinitions, lines 207-305.                                *)
(***************************************************************************)
\* line 214: the manifest response has Response.jsonWorldComponentContentPaths.
ManifestValid(body) == body.Response \notin {"absent", "noPaths"}

\* Mutant: the locale's table and the type's path are not looked at.
HasDefinitionPath_Any(body) == TRUE

\* lines 219-222: the configured locale's table has a path for the type.
HasDefinitionPath(body) == body.Response = "ok"

\* line 233: the definitions response is an object.
DefinitionsValid(body) == Truthy(BodyValue(body)) /\ body.kind = "object"

FailTask(t, e) == [t EXCEPT !.step = "failed", !.err = e]

\* lines 207-212: start, and the call for the manifest.
FetchManifestDefinitions(p, T) ==
    /\ Free(p)
    /\ invocations + 2 <= MaxInvocations
    /\ Enter(p, MANIFEST_ENDPOINT, NoParams, FALSE)
    /\ tasks' = [tasks EXCEPT ![p] =
                    [NoTask EXCEPT !.kind = "fmd", !.step = "manifest",
                                   !.defType = T, !.ncalls = 1,
                                   !.nreq = calls'[p].nreq]]
    /\ UNCHANGED <<now, lastOk>>
    /\ UNCHANGED <<job, xf, flt>>

\* lines 214-231: validate the manifest, then call for the definitions blob.
ManifestReturned(p) ==
    /\ tasks[p].kind = "fmd"
    /\ tasks[p].step = "manifest"
    /\ calls[p].pc = "returned"
    /\ IF ~ManifestValid(calls[p].result)
       THEN /\ tasks' = [tasks EXCEPT ![p] =
                           FailTask(@, "Invalid manifest response format")]
            /\ UNCHANGED <<lastRequestTime, apiCache, calls, requests, invocations>>
       ELSE IF ~HasDefinitionPath(calls[p].result)
       THEN /\ tasks' = [tasks EXCEPT ![p] =
                           FailTask(@, "Definition path not found")]
            /\ UNCHANGED <<lastRequestTime, apiCache, calls, requests, invocations>>
       ELSE /\ Enter(p, FullUrl(tasks[p].defType), NoParams, TRUE)
            /\ tasks' = [tasks EXCEPT ![p].step = "blob",
                                      ![p].ncalls = @ + 1,
                                      ![p].nreq = @ + calls'[p].nreq]
    /\ UNCHANGED <<now, lastOk>>
    /\ UNCHANGED <<job, xf, flt>>

\* lines 233-300: validate the blob and transform it.
DefinitionsReturned(p) ==
    /\ tasks[p].kind = "fmd"
    /\ tasks[p].step = "blob"
    /\ calls[p].pc = "returned"
    /\ tasks' = [tasks EXCEPT ![p] =
                    IF DefinitionsValid(calls[p].result)
                    THEN [@ EXCEPT !.step = "done", !.out = calls[p].result.ver]
                    ELSE FailTask(@, "Invalid definition response format")]
    /\ UNCHANGED <<now, lastRequestTime, apiCache, calls, requests, lastOk,
                   invocations>>
    /\ UNCHANGED <<job, xf, flt>>

\* lines 301-304: an error of the Gateway is logged and rethrown.
GatewayCallFailed(p) ==
    /\ tasks[p].kind = "fmd"
    /\ tasks[p].step \in {"manifest", "blob"}
    /\ calls[p].pc = "failed"
    /\ tasks' = [tasks EXCEPT ![p] = FailTask(@, calls[p].err)]
    /\ UNCHANGED <<now, lastRequestTime, apiCache, calls, requests, lastOk,
                   invocations>>
    /\ UNCHANGED <<job, xf, flt>>

Next ==
    \/ \E p \in Procs : \E d \in DirectCalls : CallBungieAPI(p, d[1], d[2], d[3])
    \/ \E p \in Procs : Wake(p)
    \/ \E p \in Procs : \E body \in UpstreamBodies(calls[p].endpoint) :
            Respond(p, body)
    \/ \E p \in Procs : RequestFails(p)
    \/ \E p \in Procs : \E T \in GatewayDefinitionTypes :
            FetchManifestDefinitions(p, T)
    \/ \E p \in Procs : ManifestReturned(p)
    \/ \E p \in Procs : DefinitionsReturned(p)
    \/ \E p \in Procs : GatewayCallFailed(p)
    \/ ClearCache
    \/ \E d \in TickSteps : Tick(d)


(***************************************************************************)
(* JavaScript conversions used by the transformers.                        *)
(***************************************************************************)
Arr(json) == [t |-> "array", n |-> 0, s |-> json, b |-> FALSE]

\* a || b
Or(a, b) == IF Truthy(a) THEN a ELSE b

IsDigitChar(ch) ==
    ch \in {"0", "1", "2", "3", "4", "5", "6", "7", "8", "9"}

DigitValue(ch) == CHOOSE d \in 0..9 : Digit(d) = ch

IsDigits(str) ==
    Len(str) > 0 /\ \A i \in 1..Len(str) : IsDigitChar(SubSeq(str, i, i))

RECURSIVE ParseDigits(_)
ParseDigits(str) ==
    IF Len(str) = 0 THEN 0
    ELSE 10 * ParseDigits(SubSeq(str, 1, Len(str) - 1))
         + DigitValue(SubSeq(str, Len(str), Len(str)))

\* Number(v)
ToNumber(v) ==
    CASE v.t = "number" -> v
      [] v.t = "null" -> Num(0)
      [] v.t = "boolean" -> Num(IF v.b THEN 1 ELSE 0)
      [] v.t = "string" ->
            IF v.s = "" THEN Num(0)
            ELSE IF IsDigits(v.s) THEN Num(ParseDigits(v.s)) ELSE NaN
      [] OTHER -> NaN

\* The text of a value other than undefined and null: v.toString().
ToText(v) ==
    CASE v.t = "number" -> NumToString(v.n)
      [] v.t = "string" -> v.s
      [] v.t = "boolean" -> (IF v.b THEN "true" ELSE "false")
      [] v.t = "NaN" -> "NaN"
      [] v.t = "array" -> SubSeq(v.s, 2, Len(v.s) - 1)
      [] OTHER -> "[object Object]"

\* String(v), and the interpolation of v in a template literal.
JSString(v) ==
    CASE v.t = "undefined" -> "undefined"
      [] v.t = "null" -> "null"
      [] OTHER -> ToText(v)

\* v?.toString()
OptToString(v) ==
    IF v.t \in {"undefined", "null"} THEN Undefined ELSE Str(ToText(v))

\* str.split(sep).pop(): the part after the last sep.
AfterLast(str, sep) ==
    IF \E i \in 1..Len(str) : SubSeq(str, i, i) = sep
    THEN LET i == CHOOSE k \in 1..Len(str) :
                     /\ SubSeq(str, k, k) = sep
                     /\ \A m \in (k + 1)..Len(str) : SubSeq(str, m, m) # sep
         IN  SubSeq(str, i + 1, Len(str))
    ELSE str

\* str.split(sep)[0]: the part before the first sep.
BeforeFirst(str, sep) ==
    IF \E i \in 1..Len(str) : SubSeq(str, i, i) = sep
    THEN LET i == CHOOSE k \in 1..Len(str) :
                     /\ SubSeq(str, k, k) = sep
                     /\ \A m \in 1..(k - 1) : SubSeq(str, m, m) # sep
         IN  SubSeq(str, 1, i - 1)
    ELSE str

\* key.endsWith(suffix)
EndsWith(str, suffix) ==
    /\ Len(str) >= Len(suffix)
    /\ SubSeq(str, Len(str) - Len(suffix) + 1, Len(str)) = suffix

\* lines 308-315
getClassName(classType) ==
    CASE classType = Num(0) -> "Titan"
      [] classType = Num(1) -> "Hunter"
      [] classType = Num(2) -> "Warlock"
      [] OTHER -> "Unknown"

(***************************************************************************)
(* Raw definitions.  A raw record is [kind, f]: kind is "object" or "null" *)
(* and f maps property paths to values; a nested property such as          *)
(* displayProperties.name is read through its container.                   *)
(***************************************************************************)
Prop(item, name) == item.f[name]

\* item.<container>?.<name>, and <container>.<name> of a container that is
\* not undefined or null.
Nested(item, container, name) ==
    IF item.f[container].t = "object"
    THEN item.f[container \o "." \o name] ELSE Undefined

DP(item, name) == Nested(item, "displayProperties", name)

\* `https://www.bungie.net${displayProperties.icon}` when hasIcon is truthy.
Icon(item) ==
    IF Truthy(DP(item, "hasIcon"))
    THEN Str(BUNGIE_HOST \o JSString(DP(item, "icon"))) ELSE Str("")

(***************************************************************************)
(* definitionTransformers, lines 101-204.                                  *)
(***************************************************************************)
\* Mutant: referenceId is taken from the raw record instead of the key.
InventoryItemTransformer_RawHash(item, hash) ==
    [hash |-> Str(ToText(hash)),
     name |-> Or(DP(item, "name"), Str("Unknown")),
     description |-> Or(DP(item, "description"), Str("")),
     icon |-> Icon(item),
     type |-> Or(Prop(item, "itemTypeDisplayName"), Str("Unknown Type")),
     tierType |-> Or(Nested(item, "inventory", "tierTypeName"), Str("Unknown")),
     rarity |-> ToNumber(Or(Nested(item, "inventory", "tierType"), Num(0))),
     classType |-> Str(getClassName(ToNumber(Prop(item, "classType")))),
     damageType |-> ToNumber(Or(Prop(item, "defaultDamageType"), Num(0))),
     damageTypeHash |->
        Or(OptToString(Prop(item, "defaultDamageTypeHash")), Str("0")),
     equippable |-> Bool(Truthy(Prop(item, "equippable"))),
     isExotic |-> Bool(Nested(item, "inventory", "tierType") = Num(6)),
     isLegendary |-> Bool(Nested(item, "inventory", "tierType") = Num(5)),
     bucketHash |->
        Or(OptToString(Nested(item, "inventory", "bucketTypeHash")), Str("0")),
     referenceId |-> Or(OptToString(Prop(item, "classType")), Str("0"))]

\* lines 102-124
InventoryItemTransformer(item, hash) ==
    [hash |-> Str(ToText(hash)),
     name |-> Or(DP(item, "name"), Str("Unknown")),
     description |-> Or(DP(item, "description"), Str("")),
     icon |-> Icon(item),
     type |-> Or(Prop(item, "itemTypeDisplayName"), Str("Unknown Type")),
     tierType |-> Or(Nested(item, "inventory", "tierTypeName"), Str("Unknown")),
     rarity |-> ToNumber(Or(Nested(item, "inventory", "tierType"), Num(0))),
     classType |-> Str(getClassName(ToNumber(Prop(item, "classType")))),
     damageType |-> ToNumber(Or(Prop(item, "defaultDamageType"), Num(0))),
     damageTypeHash |->
        Or(OptToString(Prop(item, "defaultDamageTypeHash")), Str("0")),
     equippable |-> Bool(Truthy(Prop(item, "equippable"))),
     isExotic |-> Bool(Nested(item, "inventory", "tierType") = Num(6)),
     isLegendary |-> Bool(Nested(item, "inventory", "tierType") = Num(5)),
     bucketHash |->
        Or(OptToString(Nested(item, "inventory", "bucketTypeHash")), Str("0")),
     referenceId |-> Str(ToText(hash))]

\* lines 126-140
ActivityTransformer(item, hash) ==
    [hash |-> Str(ToText(hash)),
     name |-> Or(DP(item, "name"), Str("Unknown")),
     description |-> Or(DP(item, "description"), Str("")),
     icon |-> Icon(item),
     type |-> IF Truthy(Prop(item, "activityTypeHash"))
              THEN Str("activityType") ELSE Str("activity"),
     activityTypeHash |->
        Or(OptToString(Prop(item, "activityTypeHash")), Str("0")),
     destinationHash |->
        Or(OptToString(Prop(item, "destinationHash")), Str("0")),
     placeHash |-> Or(OptToString(Prop(item, "placeHash")), Str("0")),
     activityModeHash |->
        Or(OptToString(Prop(item, "activityModeHash")), Str("0")),
     isPlaylist |-> Bool(Truthy(Prop(item, "isPlaylist"))),
     recommended_light |-> Or(Prop(item, "recommendedLight"), Num(0)),
     matchmaking |-> Bool(Truthy(Prop(item, "matchmaking"))),
     referenceId |-> Str(ToText(hash))]

\* lines 142-151
ClassTransformer(item, hash) ==
    [hash |-> Str(ToText(hash)),
     name |-> Or(DP(item, "name"), Str("Unknown")),
     description |-> Or(DP(item, "description"), Str("")),
     icon |-> Icon(item),
     classType |-> Str(getClassName(Prop(item, "classType"))),
     classTypeValue |-> Or(Prop(item, "classType"), Num(0)),
     mentorVendorHash |->
        Or(OptToString(Prop(item, "mentorVendorHash")), Str("0")),
     referenceId |-> Str(ToText(hash))]

\* Mutant: enumValue is copied without its `|| 0` fallback.
DamageTypeTransformer_NoFallback(item, hash) ==
    [hash |-> Str(ToText(hash)),
     name |-> Or(DP(item, "name"), Str("Unknown")),
     description |-> Or(DP(item, "description"), Str("")),
     icon |-> Icon(item),
     enumValue |-> Prop(item, "enumValue"),
     color |-> IF Truthy(Prop(item, "transparentIconPath"))
               THEN Str(BeforeFirst(
                      AfterLast(Prop(item, "transparentIconPath").s, "/"), "."))
               ELSE Str("none"),
     showIcon |-> Bool(Truthy(Prop(item, "showIcon"))),
     referenceId |-> Str(ToText(hash))]

\* lines 153-162
DamageTypeTransformer(item, hash) ==
    [hash |-> Str(ToText(hash)),
     name |-> Or(DP(item, "name"), Str("Unknown")),
     description |-> Or(DP(item, "description"), Str("")),
     icon |-> Icon(item),
     enumValue |-> Or(Prop(item, "enumValue"), Num(0)),
     color |-> IF Truthy(Prop(item, "transparentIconPath"))
               THEN Str(BeforeFirst(
                      AfterLast(Prop(item, "transparentIconPath").s, "/"), "."))
               ELSE Str("none"),
     showIcon |-> Bool(Truthy(Prop(item, "showIcon"))),
     referenceId |-> Str(ToText(hash))]

\* lines 164-174
StatTransformer(item, hash) ==
    [hash |-> Str(ToText(hash)),
     name |-> Or(DP(item, "name"), Str("Unknown")),
     description |-> Or(DP(item, "description"), Str("")),
     icon |-> Icon(item),
     aggregationType |-> Or(Prop(item, "aggregationType"), Num(0)),
     hasComputedBlock |-> Bool(Truthy(Prop(item, "hasComputedBlock"))),
     statCategory |-> Or(Prop(item, "statCategory"), Num(0)),
     interpolate |-> Bool(Truthy(Prop(item, "interpolate"))),
     referenceId |-> Str(ToText(hash))]

\* lines 176-191
VendorTransformer(item, hash) ==
    [hash |-> Str(ToText(hash)),
     name |-> Or(DP(item, "name"), Str("Unknown")),
     description |-> Or(DP(item, "description"), Str("")),
     icon |-> Icon(item),
     vendorProgressionType |-> Or(Prop(item, "vendorProgressionType"), Num(0)),
     buyString |-> Or(Prop(item, "buyString"), Str("")),
     sellString |-> Or(Prop(item, "sellString"), Str("")),
     displayItemHash |->
        Or(OptToString(Prop(item, "displayItemHash")), Str("0")),
     inhibitBuying |-> Bool(Truthy(Prop(item, "inhibitBuying"))),
     inhibitSelling |-> Bool(Truthy(Prop(item, "inhibitSelling"))),
     factionHash |-> Or(OptToString(Prop(item, "factionHash")), Str("0")),
     resetIntervalMinutes |-> Or(Prop(item, "resetIntervalMinutes"), Num(0)),
     resetOffsetMinutes |-> Or(Prop(item, "resetOffsetMinutes"), Num(0)),
     referenceId |-> Str(ToText(hash))]

\* JSON.stringify(item.artDyeChannels || [])
ArtDyeChannelsJSON(v) ==
    CASE ~Truthy(v) -> "[]"
      [] v.t = "array" -> v.s
      [] v.t = "string" -> "\"" \o v.s \o "\""
      [] v.t = "object" -> "{}"
      [] OTHER -> ToText(v)

\* lines 193-203
EquipmentSlotTransformer(item, hash) ==
    [hash |-> Str(ToText(hash)),
     name |-> Or(DP(item, "name"), Str("Unknown")),
     description |-> Or(DP(item, "description"), Str("")),
     icon |-> Icon(item),
     equipmentCategoryHash |->
        Or(OptToString(Prop(item, "equipmentCategoryHash")), Str("0")),
     bucketTypeHash |->
        Or(OptToString(Prop(item, "bucketTypeHash")), Str("0")),
     applyCustomArtDyes |-> Bool(Truthy(Prop(item, "applyCustomArtDyes"))),
     artDyeChannels |-> Str(ArtDyeChannelsJSON(Prop(item, "artDyeChannels"))),
     referenceId |-> Str(ToText(hash))]

DefinitionTypes ==
    {"DestinyInventoryItemDefinition", "DestinyActivityDefinition",
     "DestinyClassDefinition", "DestinyDamageTypeDefinition",
     "DestinyStatDefinition", "DestinyVendorDefinition",
     "DestinyEquipmentSlotDefinition"}

\* definitionTransformers[T](item, hash)
Transformer(T, item, hash) ==
    CASE T = "DestinyInventoryItemDefinition" ->
            InventoryItemTransformer(item, hash)
      [] T = "DestinyActivityDefinition" -> ActivityTransformer(item, hash)
      [] T = "DestinyClassDefinition" -> ClassTransformer(item, hash)
      [] T = "DestinyDamageTypeDefinition" -> DamageTypeTransformer(item, hash)
      [] T = "DestinyStatDefinition" -> StatTransformer(item, hash)
      [] T = "DestinyVendorDefinition" -> VendorTransformer(item, hash)
      [] OTHER -> EquipmentSlotTransformer(item, hash)

\* The transformer throws a TypeError: the raw record is null (a property of
\* null is read), the hash has no toString, or transparentIconPath is a truthy
\* value without split().
TransformerThrows(T, item, hash) ==
    \/ item.kind = "null"
    \/ hash.t \in {"undefined", "null"}
    \/ /\ T = "DestinyDamageTypeDefinition"
       /\ Truthy(Prop(item, "transparentIconPath"))
       /\ Prop(item, "transparentIconPath").t # "string"

(***************************************************************************)
(* The transform-then-default pipeline of fetchManifestDefinitions, lines  *)
(* 247-292: the callback mapped over Object.entries(definitionsResponse).  *)
(***************************************************************************)
\* lines 262-266
AddStandardFields(transformed) ==
    [kills |-> Num(0), precision |-> Num(0), usage |-> Num(0),
     vendor |-> Str(""), date |-> Str("")] @@ transformed

\* typeof v
TypeOf(v) ==
    CASE v.t = "undefined" -> "undefined"
      [] v.t \in {"number", "NaN"} -> "number"
      [] v.t = "string" -> "string"
      [] v.t = "boolean" -> "boolean"
      [] OTHER -> "object"

IsNullish(v) == v.t \in {"undefined", "null"}

StringKeys ==
    {"hash", "name", "description", "icon", "type", "tierType", "classType",
     "source", "referenceId", "vendor", "date"}

NumberKeys == {"rarity", "damageType", "bucket", "kills", "precision", "usage"}

BooleanKeys ==
    {"equippable", "isExotic", "isLegendary", "isPlaylist", "matchmaking"}

\* lines 273-283: the value a null or undefined field is left with.
DefaultFor(key, value) ==
    IF TypeOf(value) = "string" \/ EndsWith(key, "Hash") \/ key \in StringKeys
    THEN Str("")
    ELSE IF TypeOf(value) = "number" \/ key \in NumberKeys
    THEN Num(0)
    ELSE IF TypeOf(value) = "boolean" \/ key \in BooleanKeys
    THEN Bool(FALSE)
    ELSE value

\* lines 269-285
DefaultingPass(transformed) ==
    [key \in DOMAIN transformed |->
        IF IsNullish(transformed[key])
        THEN DefaultFor(key, transformed[key]) ELSE transformed[key]]

\* lines 259-287: the record the callback returns when nothing throws.
TransformEntry(T, item, hash) ==
    DefaultingPass(AddStandardFields(Transformer(T, item, hash)))

(***************************************************************************)
(* Raw definition inputs.  Every property a transformer reads is a path;   *)
(* a raw record is one of three uniform records (every property absent,    *)
(* every property null, every property present) with one property replaced *)
(* by a value of ValuePool, or the record null itself.                     *)
(***************************************************************************)
Containers == {"displayProperties", "inventory"}

RawPaths ==
    {"displayProperties", "displayProperties.name",
     "displayProperties.description", "displayProperties.hasIcon",
     "displayProperties.icon", "inventory", "inventory.tierTypeName",
     "inventory.tierType", "inventory.bucketTypeHash", "itemTypeDisplayName",
     "classType", "defaultDamageType", "defaultDamageTypeHash", "equippable",
     "activityTypeHash", "destinationHash", "placeHash", "activityModeHash",
     "isPlaylist", "recommendedLight", "matchmaking", "mentorVendorHash",
     "enumValue", "transparentIconPath", "showIcon", "aggregationType",
     "hasComputedBlock", "statCategory", "interpolate",
     "vendorProgressionType", "buyString", "sellString", "displayItemHash",
     "inhibitBuying", "inhibitSelling", "factionHash", "resetIntervalMinutes",
     "resetOffsetMinutes", "equipmentCategoryHash", "bucketTypeHash",
     "applyCustomArtDyes", "artDyeChannels"}

ValuePool ==
    {Undefined, Null, Num(0), Num(2), Num(5), Num(6), Str(""), Str("12"),
     Str("/img/arc.png"), Bool(TRUE), Bool(FALSE), NaN, Obj(""), Arr("[1]")}

AbsentItem == [kind |-> "object", f |-> [q \in RawPaths |-> Undefined]]

NullFieldsItem == [kind |-> "object", f |-> [q \in RawPaths |-> Null]]

FullItem ==
    [kind |-> "object",
     f |-> [q \in RawPaths |->
              IF q \in Containers THEN Obj("") ELSE Str("/img/arc.png")]]

NullItem == [kind |-> "null", f |-> [q \in RawPaths |-> Undefined]]

With(item, q, v) == [item EXCEPT !.f[q] = v]

RawItems ==
    {NullItem} \cup
    {With(base, q, v) :
        base \in {AbsentItem, NullFieldsItem, FullItem},
        q \in RawPaths, v \in ValuePool}

\* The records that follow the first one in a batch.
OtherItems == {FullItem, NullItem, With(AbsentItem, "transparentIconPath", Num(5))}

RECURSIVE SeqsUpTo(_, _)
SeqsUpTo(S, n) ==
    IF n = 0 THEN {<< >>}
    ELSE LET shorter == SeqsUpTo(S, n - 1)
         IN  shorter \cup {Append(q, x) : q \in shorter, x \in S}

Batches ==
    {<<a>> \o rest : a \in RawItems, rest \in SeqsUpTo(OtherItems, MaxEntries - 1)}

\* Object.entries() keys: integer-like keys, in ascending order.
HashKey(i) == NumToString(i - 1)

NoBatch ==
    [pc |-> "none", defType |-> "", entries |-> << >>, i |-> 0, out |-> << >>,
     dropped |-> {}]

TransformInit ==
    \E T \in DefinitionTypes : \E batch \in Batches :
        xf = [pc |-> "mapping", defType |-> T, entries |-> batch, i |-> 1,
              out |-> << >>, dropped |-> {}]

\* Mutant: a record that throws aborts the batch.
MapEntry_Abort ==
    /\ xf.pc = "mapping"
    /\ xf.i <= Len(xf.entries)
    /\ LET item == xf.entries[xf.i]
           hash == Str(HashKey(xf.i))
       IN  xf' = IF TransformerThrows(xf.defType, item, hash)
                 THEN [xf EXCEPT !.pc = "failed", !.out = << >>]
                 ELSE [xf EXCEPT !.i = @ + 1,
                          !.out = Append(@, TransformEntry(xf.defType, item, hash))]
    /\ UNCHANGED <<gwVars, job, flt>>

\* One call of the map callback, lines 247-291, followed by the
\* filter(item => item !== null) of line 292 for that entry.
MapEntry ==
    /\ xf.pc = "mapping"
    /\ xf.i <= Len(xf.entries)
    /\ LET item == xf.entries[xf.i]
           hash == Str(HashKey(xf.i))
       IN  xf' = IF TransformerThrows(xf.defType, item, hash)
                 THEN [xf EXCEPT !.i = @ + 1, !.dropped = @ \cup {xf.i}]
                 ELSE [xf EXCEPT !.i = @ + 1,
                          !.out = Append(@, TransformEntry(xf.defType, item, hash))]
    /\ UNCHANGED <<gwVars, job, flt>>

\* line 300
ReturnDefinitions ==
    /\ xf.pc = "mapping"
    /\ xf.i > Len(xf.entries)
    /\ xf' = [xf EXCEPT !.pc = "returned"]
    /\ UNCHANGED <<gwVars, job, flt>>

(***************************************************************************)
(* filterInventoryItems, lines 1167-1285.  A collection is the sequence of *)
(* its <<key, record>> entries in Object.entries() order.                  *)
(***************************************************************************)
\* The length of the longest prefix of str made of digits.
RECURSIVE DigitPrefix(_)
DigitPrefix(str) ==
    IF Len(str) = 0 \/ ~IsDigitChar(SubSeq(str, 1, 1)) THEN 0
    ELSE 1 + DigitPrefix(SubSeq(str, 2, Len(str)))

\* parseInt(v): the leading integer of the text of v, NaN without one.
ParseInt(v) ==
    LET str == JSString(v)
        neg == Len(str) > 0 /\ SubSeq(str, 1, 1) = "-"
        body == IF neg THEN SubSeq(str, 2, Len(str)) ELSE str
        k == DigitPrefix(body)
    IN  IF k = 0 THEN NaN
        ELSE IF neg THEN Num(0 - ParseDigits(SubSeq(body, 1, k)))
        ELSE Num(ParseDigits(SubSeq(body, 1, k)))

UpperCase == "ABCDEFGHIJKLMNOPQRSTUVWXYZ"
LowerCase == "abcdefghijklmnopqrstuvwxyz"

UpperChars == {SubSeq(UpperCase, i, i) : i \in 1..Len(UpperCase)}

LowerOf ==
    [ch \in UpperChars |->
        LET i == CHOOSE k \in 1..Len(UpperCase) : SubSeq(UpperCase, k, k) = ch
        IN  SubSeq(LowerCase, i, i)]

LowerChar(ch) == IF ch \in UpperChars THEN LowerOf[ch] ELSE ch

\* str.toLowerCase()
RECURSIVE ToLowerCase(_)
ToLowerCase(str) ==
    IF Len(str) = 0 THEN ""
    ELSE LowerChar(SubSeq(str, 1, 1)) \o ToLowerCase(SubSeq(str, 2, Len(str)))

\* str.includes(sub)
Includes(str, sub) ==
    \E i \in 1..(Len(str) - Len(sub) + 1) :
        SubSeq(str, i, i + Len(sub) - 1) = sub

\* line 1170
DEFAULT_MAX_ITEMS == 5000

MaxItemsOf(env) == Or(ParseInt(env), Num(DEFAULT_MAX_ITEMS)).n

\* lines 1182-1184
CategoryTest(item, filters) ==
    /\ Truthy(Prop(item, "itemCategoryHashes"))
    /\ Prop(item, "itemCategoryHashes").t = "array"
    /\ LET wanted == ParseInt(filters.itemCategoryHash)
       IN  wanted.t = "number" /\ wanted.n \in item.cats

\* Mutant: only the exact class matches, without the any-class sentinel.
ClassTest_Exact(item, classType) ==
    Prop(item, "classType") = Num(classType)

\* lines 1199-1203
ClassTest(item, classType) ==
    IF classType = 3
    THEN Prop(item, "classType") = Num(3) \/ Prop(item, "classType") = Undefined
    ELSE Prop(item, "classType") = Num(classType)
         \/ Prop(item, "classType") = Num(3)

\* line 1218
RarityTest(item, rarity) ==
    /\ Truthy(Prop(item, "inventory"))
    /\ Nested(item, "inventory", "tierType") = Num(rarity)

\* lines 1232-1238
SearchTest(item, searchTerm) ==
    \/ /\ Truthy(Prop(item, "displayProperties"))
       /\ Truthy(DP(item, "name"))
       /\ Includes(ToLowerCase(DP(item, "name").s), searchTerm)
    \/ /\ Truthy(Prop(item, "itemTypeDisplayName"))
       /\ Includes(ToLowerCase(Prop(item, "itemTypeDisplayName").s), searchTerm)

\* lines 1250-1251
ItemTypeTest(item, filters) ==
    /\ Truthy(Prop(item, "itemTypeDisplayName"))
    /\ Includes(ToLowerCase(Prop(item, "itemTypeDisplayName").s),
                ToLowerCase(filters.itemType.s))

\* line 1175
CategoryApplies(filters) == Truthy(filters.itemCategoryHash)

\* lines 1190-1192
ClassApplies(filters) ==
    /\ ~IsNullish(filters.classType)
    /\ LET classType == ParseInt(filters.classType)
       IN  classType.t = "number" /\ classType.n >= 0 /\ classType.n <= 3

\* lines 1210-1212
RarityApplies(filters) ==
    /\ ~IsNullish(filters.rarity)
    /\ LET rarity == ParseInt(filters.rarity)
       IN  rarity.t = "number" /\ rarity.n >= 0

\* line 1225
SearchApplies(filters) == Truthy(filters.searchTerm)

\* line 1244
ItemTypeApplies(filters) == Truthy(filters.itemType)

\* lines 1175-1187
ByItemCategoryHash(filtered, filters) ==
    LET Test(e) == CategoryTest(e[2], filters)
    IN  IF CategoryApplies(filters) THEN SelectSeq(filtered, Test) ELSE filtered

\* lines 1190-1207
ByClassType(filtered, filters) ==
    LET Test(e) == ClassTest(e[2], ParseInt(filters.classType).n)
    IN  IF ClassApplies(filters) THEN SelectSeq(filtered, Test) ELSE filtered

\* lines 1210-1222
ByRarity(filtered, filters) ==
    LET Test(e) == RarityTest(e[2], ParseInt(filters.rarity).n)
    IN  IF RarityApplies(filters) THEN SelectSeq(filtered, Test) ELSE filtered

\* lines 1225-1241
BySearchTerm(filtered, filters) ==
    LET Test(e) == SearchTest(e[2], ToLowerCase(filters.searchTerm.s))
    IN  IF SearchApplies(filters) THEN SelectSeq(filtered, Test) ELSE filtered

\* lines 1244-1254
ByItemType(filtered, filters) ==
    LET Test(e) == ItemTypeTest(e[2], filters)
    IN  IF ItemTypeApplies(filters) THEN SelectSeq(filtered, Test) ELSE filtered

\* lines 1178, 1194, 1214, 1228, 1246
AppliedFilters(filters) ==
    (IF CategoryApplies(filters)
     THEN <<"itemCategoryHash=" \o JSString(filters.itemCategoryHash)>>
     ELSE << >>)
    \o (IF ClassApplies(filters)
        THEN <<"classType=" \o JSString(ParseInt(filters.classType))>>
        ELSE << >>)
    \o (IF RarityApplies(filters)
        THEN <<"rarity=" \o JSString(ParseInt(filters.rarity))>>
        ELSE << >>)
    \o (IF SearchApplies(filters)
        THEN <<"searchTerm=" \o ToLowerCase(filters.searchTerm.s)>>
        ELSE << >>)
    \o (IF ItemTypeApplies(filters)
        THEN <<"itemType=" \o JSString(filters.itemType)>>
        ELSE << >>)

\* line 1260
Warning(filteredCount, maxItems) ==
    "Filtered result set (" \o NumToString(filteredCount)
    \o " items) exceeds maximum limit (" \o NumToString(maxItems)
    \o "). Please apply more specific filters."

\* Mutant: the item-type step filters the original collection instead of the
\* working set.
Narrowed_Independent(rawItems, filters) ==
    IF ItemTypeApplies(filters) THEN ByItemType(rawItems, filters)
    ELSE BySearchTerm(
           ByRarity(
             ByClassType(ByItemCategoryHash(rawItems, filters), filters),
             filters),
           filters)

\* lines 1169-1254: the working set after the five steps, in their order.
Narrowed(rawItems, filters) ==
    ByItemType(
      BySearchTerm(
        ByRarity(
          ByClassType(ByItemCategoryHash(rawItems, filters), filters),
          filters),
        filters),
      filters)

\* Mutant: the sample is the last MAX_ITEMS entries instead of the first.
filterInventoryItems_Tail(rawItems, filters, env) ==
    LET MAX_ITEMS == MaxItemsOf(env)
        narrowed == Narrowed(rawItems, filters)
        isTooBig == Len(narrowed) > MAX_ITEMS
        filtered == IF isTooBig
                    THEN SubSeq(narrowed, Len(narrowed) - MAX_ITEMS + 1,
                                Len(narrowed))
                    ELSE narrowed
    IN  [filteredItems |-> filtered,
         originalCount |-> Len(rawItems),
         filteredCount |-> Len(filtered),
         warning |-> IF isTooBig
                     THEN Str(Warning(Len(narrowed), MAX_ITEMS)) ELSE Null,
         appliedFilters |-> AppliedFilters(filters)]

\* Mutant: the input is counted after the five steps instead of before them.
filterInventoryItems_CountAfter(rawItems, filters, env) ==
    LET MAX_ITEMS == MaxItemsOf(env)
        narrowed == Narrowed(rawItems, filters)
        isTooBig == Len(narrowed) > MAX_ITEMS
        filtered == IF isTooBig THEN SubSeq(narrowed, 1, MAX_ITEMS)
                    ELSE narrowed
    IN  [filteredItems |-> filtered,
         originalCount |-> Len(narrowed),
         filteredCount |-> Len(filtered),
         warning |-> IF isTooBig
                     THEN Str(Warning(Len(narrowed), MAX_ITEMS)) ELSE Null,
         appliedFilters |-> AppliedFilters(filters)]

\* lines 1167-1285
filterInventoryItems(rawItems, filters, env) ==
    LET MAX_ITEMS == MaxItemsOf(env)
        narrowed == Narrowed(rawItems, filters)
        isTooBig == Len(narrowed) > MAX_ITEMS
        filtered == IF isTooBig THEN SubSeq(narrowed, 1, MAX_ITEMS)
                    ELSE narrowed
    IN  [filteredItems |-> filtered,
         originalCount |-> Len(rawItems),
         filteredCount |-> Len(filtered),
         warning |-> IF isTooBig
                     THEN Str(Warning(Len(narrowed), MAX_ITEMS)) ELSE Null,
         appliedFilters |-> AppliedFilters(filters)]

(***************************************************************************)
(* Filter inputs: a collection of at most MaxItems records, a FilterSpec   *)
(* of query-string values, and the MAX_ITEMS environment setting.          *)
(***************************************************************************)
FilterPaths ==
    {"itemCategoryHashes", "classType", "inventory", "inventory.tierType",
     "displayProperties", "displayProperties.name", "itemTypeDisplayName"}

\* A record with the given category hashes, class, tier, name and type name;
\* Undefined stands for an absent property.
InventoryItem(categories, classType, tierType, name, typeName) ==
    [kind |-> "object",
     cats |-> categories,
     f |-> [q \in FilterPaths |->
              CASE q = "itemCategoryHashes" ->
                      IF categories = {} THEN Undefined ELSE Arr("[..]")
                [] q = "classType" -> classType
                [] q = "inventory" ->
                      IF tierType = Undefined THEN Undefined ELSE Obj("")
                [] q = "inventory.tierType" -> tierType
                [] q = "displayProperties" ->
                      IF name = Undefined THEN Undefined ELSE Obj("")
                [] q = "displayProperties.name" -> name
                [] OTHER -> typeName]]

FilterItems ==
    {InventoryItem({1}, Num(1), Num(6), Str("Ace"), Str("Bow")),
     InventoryItem({1, 2}, Num(3), Num(5), Str("Talon"), Str("Axe")),
     InventoryItem({2}, Num(0), Num(5), Str("Waxer"), Str("Bow")),
     InventoryItem({1}, Undefined, Num(5), Undefined, Str("Axe")),
     InventoryItem({}, Undefined, Undefined, Undefined, Undefined)}

Collections ==
    {[i \in 1..Len(items) |-> <<HashKey(i), items[i]>>] :
        items \in SeqsUpTo(FilterItems, MaxItems)}

FilterSpecs ==
    [itemCategoryHash : {Undefined, Str("1")},
     classType : {Undefined, Str("1"), Str("3"), Str("9")},
     rarity : {Undefined, Str("5")},
     searchTerm : {Undefined, Str(""), Str("AX")},
     itemType : {Undefined, Str("Axe")}]

\* process.env.MAX_ITEMS
MaxItemsEnv == {Undefined, Str("2")}

NoFilter ==
    [pc |-> "none", rawItems |-> << >>, env |-> Undefined,
     filters |-> [itemCategoryHash |-> Undefined, classType |-> Undefined,
                  rarity |-> Undefined, searchTerm |-> Undefined,
                  itemType |-> Undefined],
     result |-> Null]

FilterInit ==
    \E rawItems \in Collections : \E filters \in FilterSpecs :
      \E env \in MaxItemsEnv :
        flt = [pc |-> "called", rawItems |-> rawItems, env |-> env,
               filters |-> filters, result |-> Null]

\* One call of filterInventoryItems(rawItems, filters).
FilterInventoryItems ==
    /\ flt.pc = "called"
    /\ flt' = [flt EXCEPT !.pc = "returned",
                  !.result = filterInventoryItems(flt.rawItems, flt.filters,
                                                  flt.env)]
    /\ UNCHANGED <<gwVars, job, xf>>

(***************************************************************************)
(* The routes that await the Gateway or fetchManifestDefinitions, and what *)
(* each responds with when the awaited call returns or raises.             *)
(***************************************************************************)
\* line 836 is awaited by /api/historical-weapon-stats; fetchManifestDefinitions
\* by /api/data (line 651), /api/manifest/:type (line 1437) and
\* /api/manifest-tables (line 1481).
RoutesAwaiting(kind) ==
    IF kind = "direct" THEN {"historical-weapon-stats"}
    ELSE {"data", "manifest", "manifest-tables"}

\* lines 665-671 and 844-861: sample records; lines 1443-1449: status 500 with
\* the error's message; lines 1489-1492: an empty table.
RouteResponse(route, raised) ==
    CASE ~raised -> "records"
      [] route \in {"data", "historical-weapon-stats"} -> "sample"
      [] route = "manifest" -> "error"
      [] OTHER -> "empty"

\* The call p's handler awaits has raised.
Raised(p) ==
    IF tasks[p].kind = "direct" THEN calls[p].pc = "failed"
    ELSE tasks[p].kind = "fmd" /\ tasks[p].step = "failed"

(***************************************************************************)
(* Dates.  A JavaScript Date is modelled as an instant [day, ms]: whole    *)
(* days since 1970-01-01 UTC and the milliseconds within that day; valid   *)
(* is false for an invalid Date (time value NaN).  The calendar            *)
(* conversions are those of the proleptic Gregorian calendar, as in        *)
(* ECMAScript.                                                             *)
(***************************************************************************)
MsPerDay == 86400000
MsPerHour == 3600000

\* new Date(y, m, d) as a day number (ECMAScript MakeDay).
DaysFromCivil(y, m, d) ==
    LET yy == IF m <= 2 THEN y - 1 ELSE y
        era == yy \div 400
        yoe == yy - era * 400
        mp == IF m > 2 THEN m - 3 ELSE m + 9
        doy == (153 * mp + 2) \div 5 + d - 1
        doe == yoe * 365 + yoe \div 4 - yoe \div 100 + doy
    IN  era * 146097 + doe - 719468

\* Year, month and day of a day number (ECMAScript YearFromTime,
\* MonthFromTime, DateFromTime).
CivilFromDays(z) ==
    LET zz == z + 719468
        era == zz \div 146097
        doe == zz - era * 146097
        yoe == (doe - doe \div 1460 + doe \div 36524 - doe \div 146096) \div 365
        doy == doe - (365 * yoe + yoe \div 4 - yoe \div 100)
        mp == (5 * doy + 2) \div 153
        d == doy - (153 * mp + 2) \div 5 + 1
        m == IF mp < 10 THEN mp + 3 ELSE mp - 9
        y == yoe + era * 400
    IN  [y |-> IF m <= 2 THEN y + 1 ELSE y, m |-> m, d |-> d]

\* The instant t moved by delta milliseconds (|delta| below 2^31).
AddMs(t, delta) ==
    LET total == t.ms + delta
        carry == total \div MsPerDay
    IN  [valid |-> TRUE, day |-> t.day + carry, ms |-> total - carry * MsPerDay]

\* a < b, a > b and a <= b on Dates: the relational operators convert both
\* to their time values, and every comparison with NaN is false.
DateLess(a, b) ==
    /\ a.valid /\ b.valid
    /\ a.day < b.day \/ (a.day = b.day /\ a.ms < b.ms)

\* b - a > span days, on time values (false when either is NaN).
SpanExceeds(a, b, span) ==
    /\ a.valid /\ b.valid
    /\ b.day - a.day > span \/ (b.day - a.day = span /\ b.ms > a.ms)

\* new Date(string): the ISO forms YYYY-MM-DD (UTC midnight) and
\* YYYY-MM-DDTHH:mm:ss.sssZ; anything else the inputs hold is not a date.
ParseDate(v) ==
    LET s == v.s
        DateAt(day, time) == [valid |-> TRUE, day |-> day, ms |-> time]
        InvalidDate == [valid |-> FALSE, day |-> 0, ms |-> 0]
        \* the digits of the given width at position i, as a number, or -1
        Field(str, i, width) ==
            LET part == SubSeq(str, i, i + width - 1)
            IN  IF Len(str) >= i + width - 1 /\ IsDigits(part)
                THEN ParseDigits(part)
                ELSE -1
        y == Field(s, 1, 4)
        m == Field(s, 6, 2)
        d == Field(s, 9, 2)
        dateOk == /\ Len(s) >= 10
                  /\ SubSeq(s, 5, 5) = "-" /\ SubSeq(s, 8, 8) = "-"
                  /\ y >= 0 /\ m \in 1..12 /\ d \in 1..31
        hh == Field(s, 12, 2)
        mi == Field(s, 15, 2)
        ss == Field(s, 18, 2)
        ms == Field(s, 21, 3)
        timeOk == /\ Len(s) = 24
                  /\ SubSeq(s, 11, 11) = "T" /\ SubSeq(s, 14, 14) = ":"
                  /\ SubSeq(s, 17, 17) = ":" /\ SubSeq(s, 20, 20) = "."
                  /\ SubSeq(s, 24, 24) = "Z"
                  /\ hh \in 0..23 /\ mi \in 0..59 /\ ss \in 0..59 /\ ms >= 0
    IN  CASE v.t # "string" -> InvalidDate
          [] dateOk /\ Len(s) = 10 -> DateAt(DaysFromCivil(y, m, d), 0)
          [] dateOk /\ timeOk ->
                DateAt(DaysFromCivil(y, m, d),
                       ((hh * 60 + mi) * 60 + ss) * 1000 + ms)
          [] OTHER -> InvalidDate

\* date.toISOString().split('T')[0]: the UTC calendar date of the instant.
formatDate(date) ==
    LET c == CivilFromDays(date.day)
        \* n in decimal, padded with zeros to the given width
        Pad(n, width) ==
            LET digits == NumToString(n)
            IN  IF Len(digits) >= width THEN digits
                ELSE SubSeq("0000", 1, width - Len(digits)) \o digits
    IN  Pad(c.y, 4) \o "-" \o Pad(c.m, 2) \o "-" \o Pad(c.d, 2)

\* date.getDay() where the local clock is offset hours east of UTC: 0 is
\* Sunday, and 1970-01-01 was a Thursday.
getDay(t, offset) == (AddMs(t, offset * MsPerHour).day + 4) % 7

NoJob == [op |-> "none"]

(***************************************************************************)
(* The date-range routes /api/historical-weapon-stats and                  *)
(* /api/vendor-inventory (src/server.js).  A job is one request from its   *)
(* arrival to its response; the handler runs to its only await (the        *)
(* Gateway call of the stats route in live mode) and from there to its     *)
(* response.                                                               *)
(***************************************************************************)
MAX_RANGE_DAYS == 30

\* The query strings a request may carry for startDate and endDate.
DateStrings ==
    {Undefined, Str(""), Str("bad-date"), Str("2024-01-01"),
     Str("2024-01-10"), Str("2024-01-31"), Str("2024-02-05"),
     Str("2024-01-10T12:00:00.000Z")}

RangeRequests ==
    [op : {"range"}, pc : {"received"},
     route : {"historical-weapon-stats", "vendor-inventory"},
     useSample : BOOLEAN, apiKey : {Undefined, Str("key")},
     member : {Undefined, Str("4611686018")},
     startDate : DateStrings, endDate : DateStrings,
     status : {0}, error : {""}, records : {"none"},
     upstream : {FALSE}, fallback : {FALSE}]

\* The handler of a date-range route from point `from` ("received", or
\* "raised" for the catch block of the Gateway call) to its response or its
\* await.
RangeHandler(j, from) ==
    LET start == ParseDate(j.startDate)
        end == ParseDate(j.endDate)
        stats == j.route = "historical-weapon-stats"
        \* res.status(400).json({ error, ... })
        Reject(error) ==
            [j EXCEPT !.pc = "responded", !.status = 400, !.error = error]
        \* res.json(records) after the per-day loop
        \* `while (currentDate <= end)`, which runs at least once unless end
        \* is before start
        Serve ==
            [j EXCEPT !.pc = "responded", !.status = 200,
                      !.fallback = (from = "raised"),
                      !.records = IF DateLess(end, start) THEN "none"
                                  ELSE "sample"]
    IN  CASE from = "raised" -> Serve
          [] ~Truthy(j.apiKey) -> Reject("Missing API Key")
          [] stats /\ ~Truthy(j.member) -> Reject("Missing Parameters")
          [] ~Truthy(j.startDate) \/ ~Truthy(j.endDate) ->
                Reject("Missing Date Range")
          [] ~start.valid \/ ~end.valid -> Reject("Invalid Date Format")
          [] SpanExceeds(start, end, MAX_RANGE_DAYS) ->
                Reject("Date Range Too Large")
          [] ~stats \/ j.useSample -> Serve
          [] OTHER -> [j EXCEPT !.pc = "awaiting", !.upstream = TRUE]

\* app.get("/api/historical-weapon-stats") and app.get("/api/vendor-inventory")
\* up to the response or the await of callBungieAPI.
HandleRangeRequest ==
    /\ job.op = "range" /\ job.pc = "received"
    /\ job' = RangeHandler(job, "received")
    /\ UNCHANGED <<gwVars, xf, flt>>

\* The awaited callBungieAPI settles.  When it returns, the transformed
\* records are the response; when it raises, the catch block answers with
\* sample records.
UpstreamSettles ==
    /\ job.op = "range" /\ job.pc = "awaiting"
    /\ \E raised \in BOOLEAN :
          job' = IF raised THEN RangeHandler(job, "raised")
                 ELSE [job EXCEPT !.pc = "responded", !.status = 200,
                                  !.records = "live"]
    /\ UNCHANGED <<gwVars, xf, flt>>

(***************************************************************************)
(* generateSampleData (src/server.js).  Math.random() is a draw in         *)
(* hundredths, 0 .. 99 standing for [0, 1); percentages and the random     *)
(* factor are in hundredths too, and the arithmetic is exact.  The map     *)
(* over the catalogue is one step per weapon.                              *)
(***************************************************************************)
weapons ==
    << [symbol |-> "Gjallarhorn", baseKills |-> 15025,
        basePrecision |-> 2505, baseUsage |-> 1000000],
       [symbol |-> "Thorn", baseKills |-> 29045,
        basePrecision |-> 18926, baseUsage |-> 750000],
       [symbol |-> "Ace of Spades", baseKills |-> 28010,
        basePrecision |-> 19607, baseUsage |-> 500000],
       [symbol |-> "Last Word", baseKills |-> 32075,
        basePrecision |-> 22452, baseUsage |-> 600000],
       [symbol |-> "Hawkmoon", baseKills |-> 27535,
        basePrecision |-> 19274, baseUsage |-> 850000],
       [symbol |-> "Vex Mythoclast", baseKills |-> 80040,
        basePrecision |-> 48024, baseUsage |-> 900000],
       [symbol |-> "Fatebringer", baseKills |-> 34520,
        basePrecision |-> 24164, baseUsage |-> 720000],
       [symbol |-> "Eyasluna", baseKills |-> 53060,
        basePrecision |-> 37142, baseUsage |-> 450000] >>

\* The draws of Math.random() the model takes: the least, the centre and
\* the largest.
RandomDraws == {0, 50, 99}

\* Math.floor(base + base * pct * (Math.random() - 0.5 + randomFactor)) for
\* the draw r.  base * pct * factor / 10000 is split at base's ten-thousands
\* to stay within 32 bits.
Jitter_Uncentred(base, pct, r, randomFactor) ==
    LET factor == r + randomFactor
    IN  base + (base \div 10000) * pct * factor
             + ((base % 10000) * pct * factor) \div 10000

Jitter(base, pct, r, randomFactor) ==
    LET factor == r - 50 + randomFactor
    IN  base + (base \div 10000) * pct * factor
             + ((base % 10000) * pct * factor) \div 10000

\* The dates generateSampleData is called with.
SampleCalls ==
    [op : {"sample"}, pc : {"called"},
     date : DateStrings \cup {Str("2024-01-10T12:00:00.099Z"),
                              Str("1969-12-31T23:59:59.901Z")},
     formattedDate : {""}, randomFactor : {0}, i : {0}, rec : {NoJob}]

\* Lines 429-441: the formatted date and the random factor.  With a date the
\* factor is (seed % 100) / 100, seed the date's time value and % the
\* remainder that takes the sign of seed; toISOString throws a RangeError on
\* an invalid date.  Without one it is a draw of Math.random().
GenerateSampleData ==
    /\ job.op \in {"sample", "data"} /\ job.pc = "called"
    /\ LET parsedDate == ParseDate(job.date)
           seedRem == IF parsedDate.day < 0 /\ parsedDate.ms % 100 # 0
                      THEN (parsedDate.ms % 100) - 100
                      ELSE parsedDate.ms % 100
       IN  IF Truthy(job.date)
           THEN job' = IF parsedDate.valid
                       THEN [job EXCEPT !.pc = "mapping",
                                        !.formattedDate = formatDate(parsedDate),
                                        !.randomFactor = seedRem]
                       ELSE [job EXCEPT !.pc = "threw"]
           ELSE \E r \in RandomDraws :
                    job' = [job EXCEPT !.pc = "mapping", !.randomFactor = r]
    /\ UNCHANGED <<gwVars, xf, flt>>

\* Lines 519-539: the map callback on the next weapon of the catalogue, with
\* its three draws.
SampleRecord ==
    /\ job.op \in {"sample", "data"} /\ job.pc = "mapping"
    /\ \E rk \in RandomDraws, rp \in RandomDraws, ru \in RandomDraws :
          LET weapon == weapons[job.i + 1]
              f == job.randomFactor
              kills == Jitter(weapon.baseKills, 5, rk, f)
              usage == Jitter(weapon.baseUsage, 20, ru, f)
          IN  job' = [job EXCEPT
                        !.i = job.i + 1,
                        !.pc = IF job.i + 1 = Len(weapons) THEN "returned"
                               ELSE "mapping",
                        !.rec = [symbol |-> weapon.symbol,
                                 date |-> job.formattedDate,
                                 kills |-> kills,
                                 precision |->
                                     Jitter(weapon.basePrecision, 8, rp, f),
                                 usage |-> usage,
                                 price |-> kills, volume |-> usage]]
    /\ UNCHANGED <<gwVars, xf, flt>>

(***************************************************************************)
(* generateVendorInventoryData (src/server.js).  The vendor "Xûr" is       *)
(* written "Xur".  getDay() reads the local clock, so the server's         *)
(* timezone is part of a call: its offset in hours east of UTC.  Of each   *)
(* record the model keeps itemName, vendor and date; price, lightLevel     *)
(* and quantity are random fields that nothing here reads.                 *)
(***************************************************************************)
inventoryItems ==
    << [itemName |-> "Gjallarhorn", vendor |-> "Xur"],
       [itemName |-> "Thorn", vendor |-> "Monument to Lost Lights"],
       [itemName |-> "Ace of Spades", vendor |-> "Monument to Lost Lights"],
       [itemName |-> "Last Word", vendor |-> "Monument to Lost Lights"],
       [itemName |-> "Hawkmoon", vendor |-> "Xur"],
       [itemName |-> "Fatebringer", vendor |-> "Banshee-44"],
       [itemName |-> "Eyasluna", vendor |-> "Banshee-44"],
       [itemName |-> "Falling Guillotine", vendor |-> "Banshee-44"],
       [itemName |-> "Ikelos SMG", vendor |-> "Banshee-44"],
       [itemName |-> "Gnawing Hunger", vendor |-> "Banshee-44"],
       [itemName |-> "Dead Man's Tale", vendor |-> "Xur"] >>

\* The timezones of the server: New York (winter), UTC and Tokyo.
TimezoneOffsets == {-5, 0, 9}

\* The calls: a date for each day of one week (2024-01-08 is a Monday), an
\* unparseable one and none; clock is the instant of the call.
VendorCalls ==
    [op : {"vendor"}, pc : {"called"},
     date : {Undefined, Str("bad-date"), Str("2024-01-08"), Str("2024-01-09"),
             Str("2024-01-10"), Str("2024-01-11"), Str("2024-01-12"),
             Str("2024-01-13"), Str("2024-01-14")},
     offset : TimezoneOffsets,
     clock : {ParseDate(Str("2024-01-12T02:00:00.000Z")),
              ParseDate(Str("2024-01-15T20:00:00.000Z"))},
     out : {<< >>}]

\* Lines 925-1087.  toISOString (line 932) throws a RangeError on an invalid
\* date.
GenerateVendorInventoryData ==
    /\ job.op = "vendor" /\ job.pc = "called"
    /\ LET parsedDate == ParseDate(job.date)
           formattedDate == IF Truthy(job.date) THEN formatDate(parsedDate)
                            ELSE ""
           dayOfWeek == IF Truthy(job.date) THEN getDay(parsedDate, job.offset)
                        ELSE getDay(job.clock, job.offset)
           isXurPresent == dayOfWeek >= 5 \/ dayOfWeek = 0
           \* the filter callback on the item at index i (from 0)
           Available(i) ==
               LET item == inventoryItems[i + 1]
               IN  CASE item.vendor = "Xur" /\ ~isXurPresent -> FALSE
                     [] item.vendor = "Monument to Lost Lights" -> TRUE
                     [] item.vendor = "Banshee-44" -> (dayOfWeek + i) % 5 < 3
                     [] OTHER -> TRUE
           availableItems ==
               SelectSeq([k \in 1..Len(inventoryItems) |-> k - 1], Available)
       IN  job' = IF Truthy(job.date) /\ ~parsedDate.valid
                  THEN [job EXCEPT !.pc = "threw"]
                  ELSE [job EXCEPT
                          !.pc = "returned",
                          !.out = [k \in 1..Len(availableItems) |->
                                     [itemName |->
                                          inventoryItems[availableItems[k] + 1].itemName,
                                      vendor |->
                                          inventoryItems[availableItems[k] + 1].vendor,
                                      date |-> formattedDate]]]
    /\ UNCHANGED <<gwVars, xf, flt>>

(***************************************************************************)
(* DateUtils (src/public/tests/date-utils.js).                             *)
(***************************************************************************)
MaxDays == 7

\* Lines 12-16.
isValidDate(dateStr) == Truthy(dateStr) /\ ParseDate(dateStr).valid

\* Lines 24-29, with >= for >.
isValidDateRange_NonStrict(startDate, endDate) ==
    /\ isValidDate(startDate) /\ isValidDate(endDate)
    /\ ~DateLess(ParseDate(endDate), ParseDate(startDate))

\* Lines 24-29.
isValidDateRange(startDate, endDate) ==
    /\ isValidDate(startDate) /\ isValidDate(endDate)
    /\ DateLess(ParseDate(startDate), ParseDate(endDate))

\* The calls of isValidDateRange and of getDateRangeForPastDays.  For the
\* latter, clock is the instant of the call (new Date()) and offsets are the
\* local clock's hours east of UTC at that instant and on the start date:
\* New York across and away from a daylight-saving change, UTC and Tokyo.
DateUtilsCalls ==
    [op : {"isValidDateRange"}, pc : {"called"},
     startDate : DateStrings, endDate : DateStrings, result : {FALSE}]
    \cup
    {c \in [op : {"getDateRangeForPastDays"}, pc : {"called"},
            days : 0..MaxDays,
            clock : {ParseDate(Str("2023-11-07T00:30:00.000Z")),
                     ParseDate(Str("2024-03-14T03:30:00.000Z")),
                     ParseDate(Str("2024-01-10T12:00:00.000Z"))},
            offsets : {<<-5, -5>>, <<-5, -4>>, <<-4, -5>>, <<0, 0>>, <<9, 9>>},
            startDate : {""}, endDate : {""}] :
        c.days = 0 => c.offsets[1] = c.offsets[2]}

\* A call of DateUtils.isValidDateRange returns.
ValidateDateRange ==
    /\ job.op = "isValidDateRange" /\ job.pc = "called"
    /\ job' = [job EXCEPT !.pc = "returned",
                          !.result = isValidDateRange(job.startDate, job.endDate)]
    /\ UNCHANGED <<gwVars, xf, flt>>

\* Lines 45-54.  setDate(getDate() - days) moves the local calendar date and
\* keeps the local time of day; formatDate gives the UTC date.
GetDateRangeForPastDays ==
    /\ job.op = "getDateRangeForPastDays" /\ job.pc = "called"
    /\ LET endDate == job.clock
           localEnd == AddMs(endDate, job.offsets[1] * MsPerHour)
           localStart == [localEnd EXCEPT !.day = localEnd.day - job.days]
           startDate == AddMs(localStart, (0 - job.offsets[2]) * MsPerHour)
       IN  job' = [job EXCEPT !.pc = "returned",
                              !.startDate = formatDate(startDate),
                              !.endDate = formatDate(endDate)]
    /\ UNCHANGED <<gwVars, xf, flt>>

(***************************************************************************)
(* The route /api/data (src/server.js, lines 599-735) for the 'items' case *)
(* of its switch and for its default case.  The response is the job's last *)
(* pc: "rejected" is status 400, "returned" is status 200 with the         *)
(* records, and "threw" is status 500 (generateSampleData throws in the    *)
(* route and again in its catch block).  In sample mode and in the         *)
(* fallback the job runs generateSampleData on the request's date.         *)
(***************************************************************************)
DataRequests ==
    [op : {"data"}, pc : {"received"},
     apiKey : {Undefined, Str("key")},
     date : {Undefined, Str(""), Str("2024-01-10"), Str("bad-date")},
     type : {Undefined, Str("items"), Str("other")},
     useSample : BOOLEAN, upstream : {FALSE}, fallback : {FALSE},
     formattedDate : {""}, randomFactor : {0}, i : {0}, rec : {NoJob},
     out : {<< >>}]

\* What fetchManifestDefinitions('DestinyInventoryItemDefinition') may return
\* to the route: up to two transformed definitions.
ItemDefinitions ==
    LET raw == {FullItem, AbsentItem,
                With(FullItem, "itemTypeDisplayName", Str("Weapon Ornament")),
                With(AbsentItem, "itemTypeDisplayName", Num(5))}
        Definition(item, k) ==
            TransformEntry("DestinyInventoryItemDefinition", item,
                           Str(HashKey(k)))
    IN  {<< >>} \cup {<<Definition(a, 1)>> : a \in raw}
        \cup {<<Definition(a, 1), Definition(b, 2)>> : a \in raw, b \in raw}

\* Mutant: the route does not look at USE_SAMPLE_DATA.
DataHandler_AlwaysLive(j) ==
    CASE ~Truthy(j.apiKey) -> [j EXCEPT !.pc = "rejected"]
      [] Or(j.type, Str("items")) # Str("items") -> [j EXCEPT !.pc = "rejected"]
      [] OTHER -> [j EXCEPT !.pc = "awaiting", !.upstream = TRUE]

\* Lines 599-637: the handler from the request's arrival to its response,
\* to its call of generateSampleData or to its await of callBungieAPI.
DataHandler(j) ==
    CASE ~Truthy(j.apiKey) -> [j EXCEPT !.pc = "rejected"]
      [] Or(j.type, Str("items")) # Str("items") -> [j EXCEPT !.pc = "rejected"]
      [] j.useSample -> [j EXCEPT !.pc = "called"]
      [] OTHER -> [j EXCEPT !.pc = "awaiting", !.upstream = TRUE]

\* Lines 654-665: the record the route makes of a transformed definition.
\* item.type.includes throws a TypeError unless type is a string or an array.
DataRecord(item, date) ==
    LET isWeapon == IF item.type.t = "string"
                    THEN Includes(item.type.s, "Weapon") ELSE FALSE
    IN  [table |-> Str("DestinyInventoryItemDefinition"),
         date |-> Or(date, Str("")),
         isWeapon |-> Bool(isWeapon),
         weaponType |-> IF isWeapon THEN item.type ELSE Null,
         damageType |-> item.damageType,
         hash |-> item.hash,
         referenceId |-> item.hash] @@ item

HandleDataRequest ==
    /\ job.op = "data" /\ job.pc = "received"
    /\ job' = DataHandler(job)
    /\ UNCHANGED <<gwVars, xf, flt>>

\* Lines 637-671: the awaited calls settle.  When the manifest call or
\* fetchManifestDefinitions raises, or the map callback throws, the catch
\* block calls generateSampleData; otherwise the mapped records are the
\* response.
DataSettles ==
    /\ job.op = "data" /\ job.pc = "awaiting"
    /\ \/ job' = [job EXCEPT !.pc = "called", !.fallback = TRUE]
       \/ \E itemDefinitions \in ItemDefinitions :
            job' = IF \E k \in 1..Len(itemDefinitions) :
                         itemDefinitions[k].type.t \notin {"string", "array"}
                   THEN [job EXCEPT !.pc = "called", !.fallback = TRUE]
                   ELSE [job EXCEPT
                           !.pc = "returned",
                           !.out = [k \in 1..Len(itemDefinitions) |->
                                      DataRecord(itemDefinitions[k], job.date)]]
    /\ UNCHANGED <<gwVars, xf, flt>>

(***************************************************************************)
(* The route /api/manifest-tables (src/server.js, lines 1453-1506).  The   *)
(* map callback of line 1480 is started for every requested table before   *)
(* any of them settles: fetch[k] is the state of the k-th callback, and    *)
(* got[k] what its fetchManifestDefinitions returned.  The response is the *)
(* job's last pc: "rejected" is status 400, "returned" is res.json(results)*)
(* with out the results object.                                            *)
(***************************************************************************)
\* String.prototype.split(',')
RECURSIVE Split(_)
Split(str) ==
    IF \E i \in 1..Len(str) : SubSeq(str, i, i) = ","
    THEN LET head == BeforeFirst(str, ",")
         IN  <<head>> \o Split(SubSeq(str, Len(head) + 2, Len(str)))
    ELSE <<str>>

TablesRequests ==
    [op : {"tables"}, pc : {"received"},
     apiKey : {Undefined, Str("key")},
     tables : {Undefined, Str(""), Str("DestinyClassDefinition"),
               Str("DestinyClassDefinition,DestinyStatDefinition"),
               Str("DestinyStatDefinition,DestinyStatDefinition"),
               Str("DestinyClassDefinition,Bogus"),
               Str("DestinyClassDefinition,")},
     date : {Undefined, Str("2024-01-10")},
     requestedTables : {<< >>}, fetch : {<< >>}, got : {<< >>},
     results : {<< >>}, out : {<< >>}]

\* What fetchManifestDefinitions(table) may return: the transformed
\* definitions of the table, none or one.
TableDefinitions(table) ==
    {<< >>, <<TransformEntry(table, FullItem, Str(HashKey(1)))>>}

\* Mutant: the join is Promise.race, which settles with the first callback.
JoinSettled_Race(fetch) == \E k \in 1..Len(fetch) : fetch[k] # "pending"

\* Line 1480: the promise of Promise.all is fulfilled when every callback's
\* promise is (none rejects: each callback catches).
JoinSettled(fetch) == \A k \in 1..Len(fetch) : fetch[k] # "pending"

\* Lines 1453-1480: validation, then the start of every callback.
HandleTablesRequest ==
    /\ job.op = "tables" /\ job.pc = "received"
    /\ LET requestedTables ==
               IF Truthy(job.tables) THEN Split(job.tables.s)
               ELSE <<"DestinyInventoryItemDefinition">>
           invalidTables ==
               {k \in 1..Len(requestedTables) :
                    requestedTables[k] \notin DefinitionTypes}
       IN  job' = CASE ~Truthy(job.apiKey) -> [job EXCEPT !.pc = "rejected"]
                    [] invalidTables # {} -> [job EXCEPT !.pc = "rejected"]
                    [] OTHER ->
                         [job EXCEPT
                            !.pc = "fetching",
                            !.requestedTables = requestedTables,
                            !.fetch = [k \in 1..Len(requestedTables) |->
                                          "pending"],
                            !.got = [k \in 1..Len(requestedTables) |-> << >>]]
    /\ UNCHANGED <<gwVars, xf, flt>>

\* Lines 1481-1493: the fetch of one callback settles.  The callback stores
\* the definitions, stamped with the date if there is one, or the empty
\* array if the fetch raised.
TableSettles ==
    /\ job.op = "tables" /\ job.pc = "fetching"
    /\ \E k \in 1..Len(job.fetch) :
        /\ job.fetch[k] = "pending"
        /\ LET table == job.requestedTables[k]
           IN  \/ \E defs \in TableDefinitions(table) :
                    LET dated == IF Truthy(job.date)
                                 THEN [i \in 1..Len(defs) |->
                                          [defs[i] EXCEPT !.date = job.date]]
                                 ELSE defs
                    IN  job' = [job EXCEPT
                                  !.fetch[k] = "resolved",
                                  !.got[k] = dated,
                                  !.results = (table :> dated) @@ job.results]
               \/ job' = [job EXCEPT
                            !.fetch[k] = "rejected",
                            !.results = (table :> << >>) @@ job.results]
    /\ UNCHANGED <<gwVars, xf, flt>>

\* Lines 1480 and 1495-1496: the await of the join returns and the route
\* answers with the results.
TablesRespond ==
    /\ job.op = "tables" /\ job.pc = "fetching"
    /\ JoinSettled(job.fetch)
    /\ job' = [job EXCEPT !.pc = "returned", !.out = job.results]
    /\ UNCHANGED <<gwVars, xf, flt>>

(***************************************************************************)
(* The field-defaulting pass on its own (src/server.js, lines 268-285, and *)
(* again lines 1393-1411): the forEach over Object.entries(transformed),   *)
(* applied to a flat record of any field names.                            *)
(***************************************************************************)
\* Flat records over a field of each class, a field ending in Hash and a
\* field of no class, each null, undefined or set.
DefaultingCalls ==
    [op : {"defaulting"}, pc : {"called"},
     transformed : [{"name", "bucketHash", "rarity", "equippable", "index"}
                        -> {Null, Undefined, Num(7)}],
     out : {<< >>}]

\* Lines 269-285: the pass over one record.
ApplyDefaults ==
    /\ job.op = "defaulting" /\ job.pc = "called"
    /\ job' = [job EXCEPT !.pc = "returned",
                          !.out = DefaultingPass(job.transformed)]
    /\ UNCHANGED <<gwVars, xf, flt>>

(***************************************************************************)
(* The cache key of two Gateway calls (src/server.js, line 40).  A params  *)
(* object is the sequence of its properties in insertion order.            *)
(***************************************************************************)
KeyCalls ==
    LET groups == <<"groups", Str("Weapons")>>
        period == <<"periodType", Num(1)>>
        Requests ==
            [endpoint : {STATS_ENDPOINT, MANIFEST_ENDPOINT},
             params : {NoParams, <<groups>>, <<period>>, StatsParams,
                       <<period, groups>>,
                       <<groups, <<"periodType", Num(2)>> >>,
                       <<groups, <<"periodType", Str("1")>> >>}]
    IN  [op : {"cacheKey"}, pc : {"called"}, first : Requests,
         second : Requests, keys : {<< >>}]

\* Line 40, in each of the two calls.
ComputeCacheKeys ==
    /\ job.op = "cacheKey" /\ job.pc = "called"
    /\ job' = [job EXCEPT
                 !.pc = "returned",
                 !.keys = <<CacheKey(job.first.endpoint, job.first.params),
                            CacheKey(job.second.endpoint, job.second.params)>>]
    /\ UNCHANGED <<gwVars, xf, flt>>

(***************************************************************************)
(* myConnector.getData of the two connector variants: the manifest         *)
(* connector of src/public/connector.js (lines 157-369) and the one of     *)
(* src/src/connector.js (lines 132-205).  abort is the message given to    *)
(* tableau.abortWithError, sent the URLs given to $.ajax, and done whether *)
(* doneCallback was called.                                                *)
(***************************************************************************)
\* lines 179-187 (public) and 151-159 (src): the keys of endpointMap
EndpointTables ==
    {"inventory_items", "activities", "classes", "damage_types", "stats",
     "vendors", "equipment_slots"}

\* endpointMap[id]
EndpointOf(id) ==
    IF id \notin EndpointTables THEN Undefined
    ELSE Str("/api/manifest/"
             \o (CASE id = "inventory_items" -> "inventory-items"
                   [] id = "damage_types" -> "damage-types"
                   [] id = "equipment_slots" -> "equipment-slots"
                   [] OTHER -> id))

GetDataCalls ==
    [op : {"getData"}, pc : {"called"}, variant : {"public", "src"},
     id : {"classes", "inventory_items", "weapons"},
     apiKey : {Undefined, Str("key")},
     selectedTables : {<< >>, <<"classes">>, <<"classes", "weapons">>},
     endpoint : {Undefined}, abort : {Undefined}, sent : {<< >>},
     done : {FALSE}]

\* src/public/connector.js, lines 157-296: getData up to its $.ajax.
GetDataPublic(j) ==
    LET endpoint == Str("http://localhost:3000" \o JSString(EndpointOf(j.id)))
    IN  CASE ~Truthy(j.apiKey) ->
                [j EXCEPT !.pc = "aborted",
                          !.abort = Str("API Key is required. Please enter "
                                        \o "your Bungie API key.")]
          [] ~Truthy(endpoint) ->
                [j EXCEPT !.pc = "aborted",
                          !.abort = Str("Unknown table: " \o j.id)]
          [] OTHER ->
                [j EXCEPT !.pc = "requesting", !.endpoint = endpoint,
                          !.sent = Append(@, endpoint.s)]

\* src/src/connector.js, lines 132-178: getData up to its $.ajax.
GetDataSrc(j) ==
    LET endpoint == EndpointOf(j.id)
        selected == {j.selectedTables[k] : k \in 1..Len(j.selectedTables)}
    IN  CASE Len(j.selectedTables) > 0 /\ j.id \notin selected ->
                [j EXCEPT !.pc = "returned", !.done = TRUE]
          [] ~Truthy(endpoint) ->
                [j EXCEPT !.pc = "aborted",
                          !.abort = Str("Unknown table: " \o j.id)]
          [] OTHER ->
                [j EXCEPT !.pc = "requesting", !.endpoint = endpoint,
                          !.sent = Append(@, endpoint.s)]

GetData ==
    /\ job.op = "getData" /\ job.pc = "called"
    /\ job' = IF job.variant = "public" THEN GetDataPublic(job)
              ELSE GetDataSrc(job)
    /\ UNCHANGED <<gwVars, xf, flt>>

\* The success callback (public lines 293-348, src lines 178-197) appends
\* the rows and calls doneCallback; the error callback (public lines
\* 349-367, src lines 198-201) aborts with the request's error.
AjaxSettles ==
    /\ job.op = "getData" /\ job.pc = "requesting"
    /\ \/ job' = [job EXCEPT !.pc = "returned", !.done = TRUE]
       \/ job' = [job EXCEPT
                    !.pc = "aborted",
                    !.abort = Str("Error fetching data from "
                                  \o job.endpoint.s \o ": error")]
    /\ UNCHANGED <<gwVars, xf, flt>>

(***************************************************************************)
(* The specifications of the gateway, of the transformer pipeline and of    *)
(* the filter.                                                             *)
(***************************************************************************)
Init == GatewayInit /\ xf = NoBatch /\ flt = NoFilter /\ job = NoJob

Spec == Init /\ [][Next]_vars

InitTransform ==
    GatewayInit /\ TransformInit /\ flt = NoFilter /\ job = NoJob

NextTransform == MapEntry \/ ReturnDefinitions

SpecTransform == InitTransform /\ [][NextTransform]_vars

InitFilter == GatewayInit /\ FilterInit /\ xf = NoBatch /\ job = NoJob

NextFilter == FilterInventoryItems

SpecFilter == InitFilter /\ [][NextFilter]_vars

InitApp ==
    /\ GatewayInit /\ xf = NoBatch /\ flt = NoFilter
    /\ job \in RangeRequests \cup SampleCalls \cup VendorCalls
                 \cup DateUtilsCalls \cup DataRequests \cup TablesRequests
                 \cup DefaultingCalls \cup KeyCalls \cup GetDataCalls

NextApp ==
    \/ HandleRangeRequest \/ UpstreamSettles
    \/ GenerateSampleData \/ SampleRecord
    \/ GenerateVendorInventoryData
    \/ ValidateDateRange \/ GetDateRangeForPastDays
    \/ HandleDataRequest \/ DataSettles
    \/ HandleTablesRequest \/ TableSettles \/ TablesRespond
    \/ ApplyDefaults \/ ComputeCacheKeys
    \/ GetData \/ AjaxSettles

SpecApp == InitApp /\ [][NextApp]_vars

\* callBungieAPI, called by any of the routes, under the scheduling of the
\* runtime: a pacing timer that is due fires (line 55), and a network request
\* that is in flight is answered or fails, at the latest by its timeout
\* (line 67).
NextLive ==
    \/ \E p \in Procs : \E d \in DirectCalls : CallBungieAPI(p, d[1], d[2], d[3])
    \/ \E p \in Procs : Wake(p)
    \/ \E p \in Procs : \E body \in UpstreamBodies(calls[p].endpoint) :
            Respond(p, body)
    \/ \E p \in Procs : RequestFails(p)
    \/ \E d \in TickSteps : Tick(d)

SpecLive ==
    /\ Init /\ [][NextLive]_vars
    /\ \A p \in Procs :
          /\ WF_vars(Wake(p))
          /\ WF_vars(RequestFails(p)
                     \/ \E body \in UpstreamBodies(calls[p].endpoint) :
                            Respond(p, body))

(***************************************************************************)
(* Claims about the Gateway.                                               *)
(***************************************************************************)
TTLms == stdTTL * 1000

\* The step is process p entering callBungieAPI.
Entering(p) == invocations' = invocations + 1 /\ calls'[p].id = invocations'

\* C1: sequential idempotence.  When a call with cache key k has returned
\* successfully from the network, a later call with the same key entered
\* before the TTL has elapsed since that return, with no cache flush in
\* between, issues no network request (one request across both calls) and
\* returns the body the first call returned.
C1_Idempotence ==
    [][\A p \in Procs :
         (/\ Entering(p)
          /\ calls'[p].key \in DOMAIN lastOk
          /\ now <= lastOk[calls'[p].key].at + TTLms)
         => (/\ calls'[p].pc = "returned"
             /\ calls'[p].result = lastOk[calls'[p].key].body
             /\ calls'[p].nreq = 0
             /\ requests' = requests)]_vars

\* C2: pacing under concurrency.  The start times of any two network
\* requests are at least MIN_REQUEST_INTERVAL apart.
C2_PacingUnderConcurrency ==
    \A i \in 1..Len(requests), j \in 1..Len(requests) :
        i < j => requests[j] - requests[i] >= MIN_REQUEST_INTERVAL

\* C3: rate limiting of two calls.  A call that misses the cache and was
\* issued after the network request of an earlier call had started starts its
\* own network request at least MIN_REQUEST_INTERVAL after that request.
C3_BackToBack ==
    \A p \in Procs :
        (calls[p].nreq = 1 /\ calls[p].seen >= 1)
        => requests[calls[p].req] - requests[calls[p].seen]
              >= MIN_REQUEST_INTERVAL

\* C3 witness: the second of two network requests was issued by a call that
\* entered less than the minimum interval after the first request, waited,
\* and started its request.
C3_Witness ==
    \E p \in Procs :
        /\ calls[p].pc = "inflight"
        /\ calls[p].seen = 1
        /\ calls[p].req = 2
        /\ calls[p].wakeAt = requests[1] + MIN_REQUEST_INTERVAL
        /\ requests[2] >= calls[p].wakeAt

\* C4: cache expiry.  A call that finds an entry whose TTL has elapsed under
\* its key does not return from the cache: it returns only after a network
\* request of its own, and a successful response is cached afresh.
C4_CacheExpiry ==
    /\ [](\A p \in Procs :
            calls[p].stale
            => /\ calls[p].pc \in {"waiting", "inflight", "returned", "failed"}
               /\ calls[p].pc \in {"returned", "failed"} => calls[p].nreq = 1)
    /\ [][\A p \in Procs :
            (calls[p].stale /\ calls[p].pc = "inflight"
             /\ calls'[p].pc = "returned")
            => (/\ calls'[p].key \in DOMAIN apiCache'
                /\ apiCache'[calls'[p].key] =
                      [v |-> calls'[p].result, t |-> now + TTLms])]_vars

\* C4 witness: a call that found an expired entry has returned the response
\* of a new network request.
C4_Witness ==
    \E p \in Procs :
        calls[p].stale /\ calls[p].pc = "returned" /\ calls[p].nreq = 1

\* C5: a call that hits the cache (an entry under its key whose TTL has not
\* elapsed) returns the cached body in the same step, issues no network
\* request and leaves the pacing clock and the cache unchanged, whatever the
\* cached body is.
C5_CacheHitFrame ==
    [][\A p \in Procs :
         (/\ Entering(p)
          /\ calls'[p].key \in DOMAIN apiCache
          /\ apiCache[calls'[p].key].t >= now)
         => (/\ calls'[p].pc = "returned"
             /\ calls'[p].result = apiCache[calls'[p].key].v
             /\ requests' = requests
             /\ lastRequestTime' = lastRequestTime
             /\ apiCache' = apiCache)]_vars

\* The body carries an ErrorCode field that is not the success value 1.
HasErrorCode(body) == body.ErrorCode # Undefined /\ body.ErrorCode # Num(1)

\* C6 as claimed: every call (isFullUrl true or false) whose response body
\* has an ErrorCode that is present and not 1 fails and writes no cache entry.
C6_ErrorsNeverCached ==
    [][\A p \in Procs : \A body \in Bodies :
         (Respond(p, body) /\ HasErrorCode(body))
         => (calls'[p].pc = "failed" /\ apiCache' = apiCache)]_vars

\* C6 as amended: a call with isFullUrl false whose response body has a
\* non-zero ErrorCode other than 1 fails with the Bungie API error and
\* leaves the cache as it was.
C6_ApiErrorsNeverCached ==
    [][\A p \in Procs : \A body \in Bodies :
         (/\ body.ErrorCode.t = "number"
          /\ body.ErrorCode.n \notin {0, 1}
          /\ ~calls[p].isFullUrl
          /\ Respond(p, body))
         => (/\ calls'[p].pc = "failed"
             /\ calls'[p].err = "Bungie API Error"
             /\ apiCache' = apiCache)]_vars

\* C6 witness: a platform API call has failed on an upstream error code and
\* the cache holds nothing under its key.
C6_Witness ==
    \E p \in Procs :
        /\ calls[p].pc = "failed"
        /\ calls[p].err = "Bungie API Error"
        /\ ~calls[p].isFullUrl
        /\ calls[p].key \notin DOMAIN apiCache

\* C7: every invocation of callBungieAPI issues at most one network request,
\* fetchManifestDefinitions issues at most one per Gateway call it makes, and
\* a failed request is propagated: the resolver fails with the Gateway's
\* error.
C7_SingleAttempt ==
    \A p \in Procs :
        /\ calls[p].nreq <= 1
        /\ tasks[p].nreq <= tasks[p].ncalls
        /\ tasks[p].ncalls <= 2
        /\ (calls[p].pc = "failed" /\ tasks[p].kind = "fmd"
            /\ tasks[p].step \notin {"manifest", "blob"})
           => (tasks[p].step = "failed" /\ tasks[p].err = calls[p].err)

\* C7 witness: a network request of the resolver has failed after its single
\* attempt and the resolver has failed with that error.
C7_Witness ==
    \E p \in Procs :
        /\ tasks[p].kind = "fmd"
        /\ tasks[p].step = "failed"
        /\ tasks[p].err = "Network Error"
        /\ calls[p].pc = "failed"
        /\ calls[p].nreq = 1

(***************************************************************************)
(* Claims about the transformers and the filter.                           *)
(***************************************************************************)
\* The entry the map callback turned into the last record of the output.
LastMapped == xf.i - 1

LastIn == xf.entries[LastMapped]

LastOut == xf.out[Len(xf.out)]

JustMapped ==
    /\ xf.pc = "mapping"
    /\ LastMapped >= 1
    /\ LastMapped \notin xf.dropped

\* C8: for each of the seven definition types, every raw record and every
\* hash, the record the transformer returns has hash and referenceId both
\* equal to String(hash).
C8_HashIsReferenceId ==
    JustMapped =>
        /\ LastOut.hash = Str(JSString(Str(HashKey(LastMapped))))
        /\ LastOut.referenceId = LastOut.hash

\* A record was returned for a raw record whose own properties differ from
\* its hash.
C8_Witness ==
    /\ JustMapped
    /\ xf.defType = "DestinyInventoryItemDefinition"
    /\ LastIn.f["classType"] = Num(5)
    /\ LastOut.hash = Str("0")
    /\ LastOut.referenceId = Str("0")

\* C9: no field of a record output by the transform-then-default pipeline is
\* null or undefined, whatever the definition type and the raw record.
C9_NoNullishField ==
    \A k \in 1..Len(xf.out) :
        \A key \in DOMAIN xf.out[k] : ~IsNullish(xf.out[k][key])

\* A record output for a raw record with a null or absent property, and one
\* output for a raw record whose nested objects are null.
C9_Witness ==
    /\ JustMapped
    /\ xf.defType = "DestinyDamageTypeDefinition"
    /\ LastIn.f["enumValue"] = Null
    /\ LastIn.f["displayProperties"] = Null
    /\ LastOut.enumValue = Num(0)
    /\ LastOut.name = Str("Unknown")

\* The predicates a FilterSpec supplies.
Supplied(filters) == {q \in DOMAIN filters : filters[q] # Undefined}

\* The FilterSpec that supplies predicate q of filters and nothing else.
Only(filters, q) ==
    [r \in DOMAIN filters |-> IF r = q THEN filters[r] ELSE Undefined]

EntrySet(entries) == {entries[k] : k \in 1..Len(entries)}

\* What filterInventoryItems returns for predicate q alone on the collection.
Alone(q) == filterInventoryItems(flt.rawItems, Only(flt.filters, q), flt.env)

Intersection ==
    LET alone == [q \in Supplied(flt.filters) |->
                    EntrySet(Alone(q).filteredItems)]
    IN  {e \in EntrySet(flt.rawItems) :
            \A q \in Supplied(flt.filters) : e \in alone[q]}

Conjunctive ==
    /\ flt.pc = "returned"
    /\ Cardinality(Supplied(flt.filters)) >= 2
    /\ flt.result.warning = Null

\* C10 as stated: with two or more predicates supplied and the result within
\* the ceiling, the returned set is the intersection of the sets returned
\* for each supplied predicate alone.
C10_Conjunction ==
    Conjunctive => EntrySet(flt.result.filteredItems) = Intersection

\* C10, amended: the same, provided the set returned for each supplied
\* predicate alone is within the ceiling too.
C10_ConjunctionWithinCeiling ==
    Conjunctive =>
        LET alone == [q \in Supplied(flt.filters) |-> Alone(q)]
        IN  (\A q \in Supplied(flt.filters) : alone[q].warning = Null)
            => EntrySet(flt.result.filteredItems)
                   = {e \in EntrySet(flt.rawItems) :
                         \A q \in Supplied(flt.filters) :
                             e \in EntrySet(alone[q].filteredItems)}

\* Two applied predicates, each alone returning two of three records within
\* a ceiling of two, together returning one.
C10_Witness ==
    /\ Conjunctive
    /\ flt.env = Str("2")
    /\ Len(flt.rawItems) = 3
    /\ Supplied(flt.filters) = {"classType", "itemType"}
    /\ ClassApplies(flt.filters) /\ ItemTypeApplies(flt.filters)
    /\ \A q \in Supplied(flt.filters) :
          Alone(q).warning = Null /\ Alone(q).filteredCount = 2
    /\ flt.result.filteredCount = 1
    /\ EntrySet(flt.result.filteredItems) = Intersection

\* The set remaining after all the predicates of the call, and its ceiling.
Remaining == Narrowed(flt.rawItems, flt.filters)

Ceiling == MaxItemsOf(flt.env)

\* C11: when more entries remain after the predicates than the ceiling, the
\* call returns exactly the first ceiling entries in iteration order and a
\* non-empty warning string; otherwise it returns every remaining entry and
\* the warning is null.
C11_Ceiling ==
    flt.pc = "returned" =>
        LET remaining == Remaining
        IN  IF Len(remaining) > Ceiling
            THEN /\ Len(flt.result.filteredItems) = Ceiling
                 /\ flt.result.filteredCount = Ceiling
                 /\ flt.result.filteredItems = SubSeq(remaining, 1, Ceiling)
                 /\ flt.result.warning.t = "string"
                 /\ flt.result.warning.s # ""
            ELSE /\ flt.result.filteredItems = remaining
                 /\ flt.result.filteredCount = Len(remaining)
                 /\ flt.result.warning = Null

\* Three entries remain under a ceiling of two; two distinct ones are kept.
C11_Witness ==
    /\ flt.pc = "returned"
    /\ Ceiling = 2
    /\ Len(Remaining) = 3
    /\ Remaining[1] # Remaining[3]
    /\ flt.result.filteredCount = 2
    /\ flt.result.warning # Null

\* The entries the class-type step keeps when class c is requested.
KeptForClass(c) ==
    EntrySet(ByClassType(flt.rawItems,
                         [flt.filters EXCEPT !.classType = Str(NumToString(c))]))

OnlyClassSupplied ==
    /\ flt.pc = "returned"
    /\ Supplied(flt.filters) = {"classType"}
    /\ ClassApplies(flt.filters)
    /\ flt.result.warning = Null

\* C12: a record without a classType passes a filter requesting the
\* any-class sentinel 3, and a record whose classType is 3 passes a filter
\* requesting class 0, 1 or 2: in the class-type step for each requested
\* class, and in the result of a call supplying the class predicate alone.
C12_ClassWildcard ==
    flt.pc = "returned" =>
        LET kept == [c \in 0..3 |-> KeptForClass(c)]
        IN  \A e \in EntrySet(flt.rawItems) :
              /\ Prop(e[2], "classType") = Undefined =>
                    /\ e \in kept[3]
                    /\ OnlyClassSupplied
                          /\ ParseInt(flt.filters.classType) = Num(3)
                          => e \in EntrySet(flt.result.filteredItems)
              /\ Prop(e[2], "classType") = Num(3) =>
                    /\ \A c \in {0, 1, 2} : e \in kept[c]
                    /\ OnlyClassSupplied
                          /\ ParseInt(flt.filters.classType).n \in {0, 1, 2}
                          => e \in EntrySet(flt.result.filteredItems)

\* A call requesting class 1 alone kept an any-class record and dropped a
\* record of class 0.
C12_Witness ==
    /\ OnlyClassSupplied
    /\ flt.filters.classType = Str("1")
    /\ \E e \in EntrySet(flt.result.filteredItems) :
          Prop(e[2], "classType") = Num(3)
    /\ \E e \in EntrySet(flt.rawItems) :
          /\ Prop(e[2], "classType") = Num(0)
          /\ e \notin EntrySet(flt.result.filteredItems)

(***************************************************************************)
(* Claims about the manifest resolver and the per-record containment.      *)
(***************************************************************************)
\* p's manifest call has returned a manifest without a usable path: it has no
\* Response or no path table ("absent", "noPaths"), no table for the locale
\* ("noLocale") or no path for the type ("noType").
BadManifest(p) ==
    /\ tasks[p].kind = "fmd"
    /\ tasks[p].step = "manifest"
    /\ calls[p].pc = "returned"
    /\ calls[p].result.Response # "ok"

\* C13: when the manifest is malformed, lacks the locale's table or has no
\* path for the type, the step of fetchManifestDefinitions that reads it
\* raises an error, calls the Gateway for no blob and issues no request, and
\* no flat record is produced.
C13_ManifestFailure ==
    [][\A p \in Procs :
          BadManifest(p) /\ tasks'[p] # tasks[p] =>
             /\ tasks'[p].step = "failed"
             /\ tasks'[p].err \in {"Invalid manifest response format",
                                   "Definition path not found"}
             /\ tasks'[p].ncalls = 1
             /\ tasks'[p].out = 0
             /\ calls' = calls
             /\ requests' = requests
             /\ invocations' = invocations]_vars

\* A resolution failed on a manifest without the locale's table, after its
\* single Gateway call.
C13_Witness ==
    \E p \in Procs :
        /\ tasks[p].kind = "fmd"
        /\ tasks[p].step = "failed"
        /\ tasks[p].err = "Definition path not found"
        /\ calls[p].result.Response = "noLocale"
        /\ tasks[p].ncalls = 1
        /\ tasks[p].out = 0

\* Entry k of the batch makes the transformer throw.
Throws(k) == TransformerThrows(xf.defType, xf.entries[k], Str(HashKey(k)))

\* The number of entries up to k that do not throw: the place in the output
\* of the record for entry k.
Rank(k) == Cardinality({j \in 1..k : ~Throws(j)})

\* C14: a record whose transformation throws is omitted alone: the batch is
\* never aborted, and once mapped its output is the transformed form of
\* every other record, in the order of the entries.
C14_PerRecordContainment ==
    /\ xf.pc \in {"none", "mapping", "returned"}
    /\ xf.pc = "returned" =>
          /\ Len(xf.out) = Rank(Len(xf.entries))
          /\ \A k \in 1..Len(xf.entries) :
                ~Throws(k) =>
                   xf.out[Rank(k)] =
                      TransformEntry(xf.defType, xf.entries[k], Str(HashKey(k)))

\* A batch whose first record threw returned the record of its second entry.
C14_Witness ==
    /\ xf.pc = "returned"
    /\ Len(xf.entries) = 2
    /\ Throws(1) /\ ~Throws(2)
    /\ Len(xf.out) = 1
    /\ xf.out[1].hash = Str("1")

\* C15: whenever the Gateway or the manifest resolver raises while a live
\* request is served, the route responds with sample records, whichever
\* route awaits the call.
C15_LiveFallback ==
    \A p \in Procs :
        Raised(p) =>
            \A route \in RoutesAwaiting(tasks[p].kind) :
                RouteResponse(route, TRUE) = "sample"

(***************************************************************************)
(* C16  Date-range validation: a request to the historical-weapon-stats or *)
(* vendor-inventory route whose end date precedes its start date, or whose *)
(* span exceeds the maximum, is rejected with a validation error; it       *)
(* returns no records, makes no upstream call and never triggers the       *)
(* sample-data fallback.                                                   *)
(***************************************************************************)
\* The request carries everything but a sound range: its key, its member
\* and two parseable dates are there.
WellFormedRange ==
    /\ job.op = "range"
    /\ Truthy(job.apiKey)
    /\ job.route = "historical-weapon-stats" => Truthy(job.member)
    /\ ParseDate(job.startDate).valid /\ ParseDate(job.endDate).valid

Inverted == DateLess(ParseDate(job.endDate), ParseDate(job.startDate))

TooLong ==
    SpanExceeds(ParseDate(job.startDate), ParseDate(job.endDate),
                MAX_RANGE_DAYS)

C16_DateRangeValidation ==
    (WellFormedRange /\ (Inverted \/ TooLong)) =>
        /\ ~job.upstream /\ ~job.fallback /\ job.records = "none"
        /\ job.pc = "responded" => job.status = 400

\* An inverted range reaches the Gateway and is answered by the fallback.
C16_Witness ==
    /\ WellFormedRange /\ Inverted
    /\ job.pc = "responded" /\ job.status = 200 /\ job.fallback

(***************************************************************************)
(* C17  Sample jitter bound: for every date (or none) and every random     *)
(* draw, each record of generateSampleData has kills within 5% of its base *)
(* entity's baseKills, precision within 8% of basePrecision and usage      *)
(* within 20% of baseUsage.                                                *)
(***************************************************************************)
\* The record the generator has just produced, and the weapon it is of.
Produced == job.op = "sample" /\ job.i > 0

\* value is base + Math.floor(v) for a v of less than the given thousandths
\* of base in size.
Within(value, base, thousandths) ==
    /\ (value - base) * 1000 < thousandths * base
    /\ (base - value - 1) * 1000 < thousandths * base

\* As stated: |value - base| is at most the percentage of base.
C17_JitterBound ==
    Produced =>
        LET weapon == weapons[job.i]
            Near(value, base, pct) ==
                /\ (value - base) * 100 <= pct * base
                /\ (base - value) * 100 <= pct * base
        IN  /\ Near(job.rec.kills, weapon.baseKills, 5)
            /\ Near(job.rec.precision, weapon.basePrecision, 8)
            /\ Near(job.rec.usage, weapon.baseUsage, 20)

\* C17 as it holds: the factor Math.random() - 0.5 + randomFactor lies
\* between -1.5 and 1.5, so each field is the floor of a value within one
\* and a half times its percentage of the base: 7.5%, 12% and 30%.
C17_JitterBoundAmended ==
    Produced =>
        LET weapon == weapons[job.i]
        IN  /\ Within(job.rec.kills, weapon.baseKills, 75)
            /\ Within(job.rec.precision, weapon.basePrecision, 120)
            /\ Within(job.rec.usage, weapon.baseUsage, 300)

\* A record more than 5% above its base, for a call without a date.
C17_Witness ==
    /\ Produced /\ ~Truthy(job.date)
    /\ (job.rec.kills - weapons[job.i].baseKills) * 100
           > 5 * weapons[job.i].baseKills

(***************************************************************************)
(* C18  Weekend-only vendor gating: generateVendorInventoryData(date)      *)
(* contains the weekend-only vendor's items exactly when the date's day of *)
(* week is Friday, Saturday or Sunday; a Saturday date includes them and a *)
(* Tuesday date excludes them, while the always-present vendor's items     *)
(* appear for every date.                                                  *)
(***************************************************************************)
\* The names of the returned records of the vendor.
Returned(vendor) ==
    {job.out[k].itemName : k \in {i \in 1..Len(job.out) : job.out[i].vendor = vendor}}

Stocked(vendor) ==
    {inventoryItems[k].itemName :
        k \in {i \in 1..Len(inventoryItems) : inventoryItems[i].vendor = vendor}}

\* The day of week of the calendar date the string names: 5, 6 and 0 are
\* Friday, Saturday and Sunday.
WeekendDate == getDay(ParseDate(job.date), 0) \in {5, 6, 0}

C18_WeekendGating ==
    (job.op = "vendor" /\ job.pc = "returned" /\ Truthy(job.date)) =>
        /\ Returned("Xur") = IF WeekendDate THEN Stocked("Xur") ELSE {}
        /\ Returned("Monument to Lost Lights")
               = Stocked("Monument to Lost Lights")

\* West of UTC a Friday date is served without the weekend-only vendor.
C18_Witness ==
    /\ job.op = "vendor" /\ job.pc = "returned"
    /\ job.date = Str("2024-01-12") /\ job.offset < 0
    /\ Returned("Xur") = {}

(***************************************************************************)
(* C19  DateUtils.isValidDateRange(start, end) returns true exactly when   *)
(* both strings are non-empty parseable dates and end is strictly after    *)
(* start; it returns false when either is empty or unparseable or when end *)
(* is before or equal to start.                                            *)
(***************************************************************************)
\* The argument is a non-empty string that new Date parses.
Parseable(v) == v.t = "string" /\ v.s # "" /\ ParseDate(v).valid

C19_ValidDateRange ==
    (job.op = "isValidDateRange" /\ job.pc = "returned") =>
        (job.result <=>
            /\ Parseable(job.startDate) /\ Parseable(job.endDate)
            /\ LET start == ParseDate(job.startDate)
                   end == ParseDate(job.endDate)
               IN  end.day > start.day
                   \/ (end.day = start.day /\ end.ms > start.ms))

\* The boundary: two parseable dates that are equal are not a range.
C19_Witness ==
    /\ job.op = "isValidDateRange" /\ job.pc = "returned"
    /\ Parseable(job.startDate) /\ job.startDate = job.endDate
    /\ ~job.result

(***************************************************************************)
(* C20  For every number of days n >= 0, getDateRangeForPastDays(n)        *)
(* returns a startDate and endDate that are both non-empty formatted       *)
(* dates, that isValidDateRange accepts, and whose difference is exactly n *)
(* days.                                                                   *)
(***************************************************************************)
PastDaysReturned == job.op = "getDateRangeForPastDays" /\ job.pc = "returned"

\* The days between the two dates of the result.
Difference == ParseDate(Str(job.endDate)).day - ParseDate(Str(job.startDate)).day

C20_PastDaysRange ==
    PastDaysReturned =>
        /\ Len(job.startDate) = 10 /\ ParseDate(Str(job.startDate)).valid
        /\ Len(job.endDate) = 10 /\ ParseDate(Str(job.endDate)).valid
        /\ isValidDateRange(Str(job.startDate), Str(job.endDate))
        /\ Difference = job.days

\* Across the end of daylight saving, seven days back are eight dates apart.
C20_Witness == PastDaysReturned /\ job.days = 7 /\ Difference = 8

(***************************************************************************)
(* C21  In sample-data mode, a request for entity type 'items' with no     *)
(* date returns a non-empty sequence of records in which every record's    *)
(* date field is the empty string, and makes no Gateway call (cache and    *)
(* pacing clock unchanged).                                                *)
(***************************************************************************)
\* A well-formed request for items (asked for or by default).
ItemsRequest ==
    /\ job.op = "data"
    /\ Truthy(job.apiKey)
    /\ job.type \in {Undefined, Str("items")}

C21_SampleItemsNoDate ==
    (ItemsRequest /\ job.useSample /\ ~Truthy(job.date)) =>
        /\ ~job.upstream
        /\ job.pc \in {"received", "called", "mapping", "returned"}
        /\ job.pc = "returned" => job.i = Len(weapons) /\ job.i > 0
        /\ job.i > 0 => job.rec.date = ""
        /\ apiCache = EmptyCache /\ lastRequestTime = 0 /\ requests = << >>

C21_Witness ==
    /\ ItemsRequest /\ job.useSample /\ job.date = Undefined
    /\ job.pc = "returned" /\ job.i = 8
    /\ job.rec.date = "" /\ job.rec.symbol = "Eyasluna"

(***************************************************************************)
(* C28  Every record returned to the caller for a live-mode 'items' data   *)
(* request (the transformed item definitions after the route adds its      *)
(* table, date, isWeapon and weaponType fields) has no field whose value   *)
(* is null or undefined.                                                   *)
(***************************************************************************)
\* The response is the mapped definitions, not sample records.
LiveItemsReturned ==
    /\ ItemsRequest /\ ~job.useSample
    /\ job.pc = "returned" /\ ~job.fallback

C28_LiveItemsNoNullishField ==
    LiveItemsReturned =>
        \A k \in 1..Len(job.out) :
            \A field \in DOMAIN job.out[k] : ~IsNullish(job.out[k][field])

\* A definition that is not a weapon is returned with weaponType null.
C28_Witness ==
    /\ LiveItemsReturned
    /\ Len(job.out) = 1
    /\ job.out[1].isWeapon = Bool(FALSE)
    /\ job.out[1].weaponType = Null

(***************************************************************************)
(* C22  Overlapping identical calls: when a second Gateway call with the   *)
(* same (endpoint, params) starts while the first is still in flight (its  *)
(* response not yet cached), the pair still issues exactly one network     *)
(* request.                                                                *)
(***************************************************************************)
\* p and q are two calls under one cache key, neither of which has returned
\* or raised yet.
Overlapping(p, q) ==
    /\ p # q
    /\ calls[p].key = calls[q].key
    /\ calls[p].pc \in {"waiting", "inflight"}
    /\ calls[q].pc \in {"waiting", "inflight"}

C22_OverlappingCallsShareRequest ==
    \A p \in Procs, q \in Procs :
        Overlapping(p, q) => calls[p].nreq + calls[q].nreq <= 1

\* Two calls for the manifest are in flight at once, each with a network
\* request of its own.
C22_Witness ==
    \E p \in Procs, q \in Procs :
        /\ Overlapping(p, q)
        /\ calls[p].endpoint = MANIFEST_ENDPOINT
        /\ calls[p].pc = "inflight" /\ calls[q].pc = "inflight"
        /\ calls[p].req # calls[q].req

(***************************************************************************)
(* C23  No starvation by pacing: every Gateway call that misses the cache  *)
(* is suspended for at most one minimum interval (100 ms) before issuing   *)
(* its network request, regardless of how many other calls are pending or  *)
(* how slow their upstream responses are; every call eventually returns or *)
(* raises provided its own network request responds or times out.          *)
(***************************************************************************)
\* A step in which p suspends sets p's timer for at most one minimum
\* interval from now, and a step that ends p's suspension issues p's
\* network request: p does not wait again.
PacedOnce(p) ==
    /\ (calls[p].pc # "waiting" /\ calls'[p].pc = "waiting")
          => /\ calls'[p].wakeAt - now' > 0
             /\ calls'[p].wakeAt - now' <= MIN_REQUEST_INTERVAL
    /\ (calls[p].pc = "waiting" /\ calls'[p].pc # "waiting")
          => /\ calls'[p].pc = "inflight"
             /\ requests' = Append(requests, now)
             /\ calls'[p].req = Len(requests')

\* The suspension is the pacing timer of line 55, set once for at most the
\* minimum interval whatever the other calls do; a call whose timer is due
\* issues its request, and a call whose request is in flight returns or
\* raises.
C23_NoStarvation ==
    /\ [][\A p \in Procs : PacedOnce(p)]_vars
    /\ \A p \in Procs :
          (calls[p].pc = "waiting" /\ now >= calls[p].wakeAt)
              ~> (calls[p].pc = "inflight")
    /\ \A p \in Procs :
          (calls[p].pc = "inflight") ~> (calls[p].pc \in {"returned", "failed"})

\* A call is suspended for a whole interval while the request of another
\* call is still in flight.
C23_Witness ==
    \E p \in Procs, q \in Procs :
        /\ calls[p].pc = "waiting"
        /\ calls[p].wakeAt = now + MIN_REQUEST_INTERVAL
        /\ calls[q].pc = "inflight"

(***************************************************************************)
(* C24  Bulk manifest-tables join: the per-table fetches are issued        *)
(* concurrently and the response is produced only after every one has      *)
(* finished; the response has exactly one entry per requested table, and a *)
(* table whose fetch fails maps to an empty sequence without failing the   *)
(* request or changing the other tables' results.                          *)
(***************************************************************************)
\* The table of the k-th fetch is named once in the request.
NamedOnce(k) ==
    \A m \in 1..Len(job.requestedTables) :
        job.requestedTables[m] = job.requestedTables[k] => m = k

\* Every fetch is under way before any has settled, and the response waits
\* for all of them and has the requested tables as its entries.
Joined ==
    /\ job.pc = "fetching"
          => /\ Len(job.fetch) = Len(job.requestedTables)
             /\ Len(job.fetch) >= 1
    /\ job.pc = "returned"
          => /\ \A k \in 1..Len(job.fetch) : job.fetch[k] # "pending"
             /\ DOMAIN job.out =
                    {job.requestedTables[k] : k \in 1..Len(job.fetch)}

\* As stated, for every fetch: a request for tables answers with status 200
\* after all its fetches have finished, a failed fetch leaves its table
\* empty and a successful one leaves what it returned.
C24_ManifestTablesJoin ==
    job.op = "tables" /\ job.pc \in {"fetching", "returned"}
        => /\ Joined
           /\ job.pc = "returned"
                 => \A k \in 1..Len(job.fetch) :
                       job.out[job.requestedTables[k]] =
                           IF job.fetch[k] = "rejected" THEN << >>
                           ELSE job.got[k]

\* C24 amended: the same for every table that the request names once; a
\* table named more than once is fetched once per mention and its entry is
\* the outcome of one of these fetches.
C24_ManifestTablesJoinAmended ==
    job.op = "tables" /\ job.pc \in {"fetching", "returned"}
        => /\ Joined
           /\ job.pc = "returned"
                 => \A k \in 1..Len(job.fetch) :
                       LET entry == job.out[job.requestedTables[k]]
                           Outcome(m) == IF job.fetch[m] = "rejected"
                                         THEN << >> ELSE job.got[m]
                       IN  IF NamedOnce(k) THEN entry = Outcome(k)
                           ELSE \E m \in 1..Len(job.fetch) :
                                   /\ job.requestedTables[m] =
                                          job.requestedTables[k]
                                   /\ entry = Outcome(m)

\* Two tables were requested, the fetch of one failed and the other's
\* returned a definition: the response has both.
C24_Witness ==
    /\ job.op = "tables" /\ job.pc = "returned"
    /\ \E k \in 1..Len(job.fetch), m \in 1..Len(job.fetch) :
          /\ job.requestedTables[k] # job.requestedTables[m]
          /\ job.fetch[k] = "rejected"
          /\ job.out[job.requestedTables[k]] = << >>
          /\ job.fetch[m] = "resolved"
          /\ Len(job.out[job.requestedTables[m]]) = 1

(***************************************************************************)
(* C25  appliedFilters reflects the supplied predicates exactly: for every *)
(* FilterSpec, appliedFilters contains one token for each predicate that   *)
(* was supplied and no token for any predicate that was absent/undefined,  *)
(* in the fixed order category hash, class type, rarity, search term, item *)
(* type.                                                                   *)
(***************************************************************************)
\* The names of the predicates the FilterSpec supplies, in the fixed order.
SuppliedPredicates(filters) ==
    LET IsSupplied(name) == ~IsNullish(filters[name])
    IN  SelectSeq(<<"itemCategoryHash", "classType", "rarity", "searchTerm",
                    "itemType">>, IsSupplied)

\* The returned appliedFilters has exactly one token name=... per supplied
\* predicate, in that order.
C25_AppliedFiltersExact ==
    flt.pc = "returned"
        => LET supplied == SuppliedPredicates(flt.filters)
               appliedFilters == flt.result.appliedFilters
           IN  /\ Len(appliedFilters) = Len(supplied)
               /\ \A k \in 1..Len(supplied) :
                     SubSeq(appliedFilters[k], 1, Len(supplied[k]) + 1)
                         = supplied[k] \o "="

\* A call whose FilterSpec supplies a class type outside 0..3 returns with
\* no token for it.
C25_Witness ==
    /\ flt.pc = "returned"
    /\ flt.filters.classType = Str("9")
    /\ flt.filters.searchTerm = Undefined
    /\ Len(flt.result.appliedFilters) < Len(SuppliedPredicates(flt.filters))

(***************************************************************************)
(* C29  filterInventoryItems never modifies its input collection or any    *)
(* record in it; originalCount equals the number of input entries, and the *)
(* returned set maps a subset of the input's keys to the same records, so  *)
(* filteredCount <= originalCount for every FilterSpec; with no predicate  *)
(* supplied and an input within the ceiling the returned set equals the    *)
(* input.                                                                  *)
(***************************************************************************)
\* No predicate of the FilterSpec is supplied.
NoPredicate(filters) ==
    \A name \in DOMAIN filters : filters[name] = Undefined

\* What a returned call gave back, against its input.
FrameOfResult ==
    flt.pc = "returned"
        => LET rawItems == flt.rawItems
               result == flt.result
               filteredItems == result.filteredItems
           IN  /\ result.originalCount = Len(rawItems)
               /\ result.filteredCount = Len(filteredItems)
               /\ result.filteredCount <= result.originalCount
               /\ \A k \in 1..Len(filteredItems) :
                     \E i \in 1..Len(rawItems) :
                         filteredItems[k] = rawItems[i]
               /\ \A k \in 1..Len(filteredItems) :
                     \A m \in 1..Len(filteredItems) :
                         filteredItems[k][1] = filteredItems[m][1] => k = m
               /\ (NoPredicate(flt.filters)
                      /\ Len(rawItems) <= MaxItemsOf(flt.env))
                     => filteredItems = rawItems

\* The call leaves the collection it was given, and each record in it, as
\* they were, and its result is framed by the input.
C29_FilterFrame ==
    /\ [][flt'.rawItems = flt.rawItems /\ flt'.filters = flt.filters]_vars
    /\ []FrameOfResult

\* A call with predicates returned a proper, non-empty part of its input.
C29_Witness ==
    /\ flt.pc = "returned"
    /\ ~NoPredicate(flt.filters)
    /\ flt.result.filteredCount >= 1
    /\ flt.result.filteredCount < flt.result.originalCount
    /\ flt.result.warning = Null

C26_Witness ==
    /\ job.op = "defaulting" /\ job.pc = "returned"
    /\ job.transformed["index"] = Null
    /\ job.transformed["name"] = Null /\ job.out["name"] = Str("")
    /\ job.transformed["rarity"] = Undefined /\ job.out["rarity"] = Num(0)
    /\ job.out["bucketHash"] = Str("")
    /\ job.out["equippable"] = Bool(FALSE)

(***************************************************************************)
(* C27  Cache key is the request identity: two Gateway calls whose         *)
(* endpoint strings are equal and whose params are equal as mappings (same *)
(* keys and values, in any insertion order) resolve to the same cache      *)
(* entry, and two calls that differ in endpoint or in params never share a *)
(* cache entry.                                                            *)
(***************************************************************************)
\* The mapping a params object is: its properties without their order.
AsMapping(params) == {params[i] : i \in 1..Len(params)}

C27_Witness ==
    /\ job.op = "cacheKey" /\ job.pc = "returned"
    /\ job.first.endpoint = job.second.endpoint
    /\ job.first.params # job.second.params
    /\ AsMapping(job.first.params) = AsMapping(job.second.params)
    /\ job.keys[1] # job.keys[2]

(***************************************************************************)
(* C30  In both connector variants, a getData call for a table id that is  *)
(* not in the endpoint map aborts with an 'Unknown table' error via        *)
(* tableau.abortWithError and sends no HTTP request; doneCallback is not   *)
(* called for it.                                                          *)
(***************************************************************************)
\* Once getData has run for an id outside the endpoint map, the abort
\* message is 'Unknown table: <id>', nothing was sent and doneCallback was
\* not called.
C30_UnknownTableAborts ==
    (job.op = "getData" /\ job.pc # "called" /\ job.id \notin EndpointTables)
        => /\ job.pc = "aborted"
           /\ job.abort = Str("Unknown table: " \o job.id)
           /\ job.sent = << >>
           /\ ~job.done

\* The public variant, given an API key and an id outside the endpoint map,
\* has sent a request.
C30_Witness ==
    /\ job.op = "getData" /\ job.variant = "public"
    /\ job.id \notin EndpointTables
    /\ Truthy(job.apiKey)
    /\ job.sent = <<"http://localhost:3000undefined">>

====
